---- MODULE Spec2Model ----
(***************************************************************************)
(* A model of the Bitbucket MCP server core: the safety checks of          *)
(* safety.ts (the Access Gateway), the tool handlers of the toolsets and   *)
(* the HTTP client of bitbucket/client.ts (the Transport Client).          *)
(*                                                                         *)
(* Strings are sequences of one-character strings, so that toLowerCase,    *)
(* template concatenation and includes are computed as the code computes   *)
(* them.  The fixed text of a message template is kept as one element.     *)
(* An optional value (T | undefined) is a record with a "def" flag.        *)
(***************************************************************************)
EXTENDS Integers, Sequences, FiniteSets, TLC

VARIABLES
    config,   \* the Config value built once at start-up, never mutated
    gw,       \* the last direct call of a safety.ts function and its outcome
    call,     \* the tool handler invocation in progress
    req,      \* the BitbucketClient.request frame of that invocation
    pag,      \* the BitbucketClient.paginateAll frame of that invocation
    sent,     \* the fetch calls issued by the current invocation, in order
    fetched,  \* the pages paginateAll received so far, in order
    inflight  \* the request() frames of callers that share the client

vars == <<config, gw, call, req, pag, sent, fetched, inflight>>

----------------------------------------------------------------------------
(* JavaScript values *)

Undefined == [def |-> FALSE]

Def(v) == [def |-> TRUE, val |-> v]

\* JS truthiness of an optional string: undefined and "" are falsy
TruthyString(o) == o.def /\ o.val # <<>>

\* JS truthiness of an optional boolean: only true is truthy
TruthyBoolean(o) == o.def /\ o.val = TRUE

\* JS truthiness of an optional array: every array is truthy, even []
TruthyArray(o) == o.def

Return(v) == [threw |-> FALSE, value |-> v]

Throw(e) == [threw |-> TRUE, error |-> e]

Void == <<>>

LowerChar(c) ==
    CASE c = "A" -> "a" [] c = "B" -> "b" [] c = "C" -> "c" [] c = "D" -> "d"
      [] c = "E" -> "e" [] c = "F" -> "f" [] c = "G" -> "g" [] c = "H" -> "h"
      [] c = "I" -> "i" [] c = "J" -> "j" [] c = "K" -> "k" [] c = "L" -> "l"
      [] c = "M" -> "m" [] c = "N" -> "n" [] c = "O" -> "o" [] c = "P" -> "p"
      [] c = "Q" -> "q" [] c = "R" -> "r" [] c = "S" -> "s" [] c = "T" -> "t"
      [] c = "U" -> "u" [] c = "V" -> "v" [] c = "W" -> "w" [] c = "X" -> "x"
      [] c = "Y" -> "y" [] c = "Z" -> "z" [] OTHER -> c

\* String.prototype.toLowerCase
ToLowerCase(s) == [i \in 1..Len(s) |-> LowerChar(s[i])]

\* Array.prototype.includes
Includes(arr, x) == \E i \in 1..Len(arr) : arr[i] = x

\* Array.prototype.join
RECURSIVE Join(_, _)
Join(arr, sep) ==
    IF Len(arr) = 0 THEN <<>>
    ELSE IF Len(arr) = 1 THEN arr[1]
    ELSE arr[1] \o sep \o Join(Tail(arr), sep)

\* String.prototype.includes, on the sequence representation
Contains(text, sub) ==
    \E i \in 1..(Len(text) - Len(sub) + 1) :
        SubSeq(text, i, i + Len(sub) - 1) = sub

----------------------------------------------------------------------------
(* safety.ts *)

SafetyError(message) == [name |-> "SafetyError", message |-> message]

ReadonlyMessage ==
    <<"This operation is not allowed in readonly mode. Set BITBUCKET_READONLY=false to enable write operations.">>

NoWorkspaceMessage ==
    <<"No workspace specified and BITBUCKET_DEFAULT_WORKSPACE is not set. Provide a workspace parameter.">>

NotInAllowedList == <<"\" is not in the allowed list. Allowed: ">>

assertNotReadonly_Never(cfg) == Return(Void)

assertNotReadonly(cfg) ==
    IF cfg.readonly THEN Throw(SafetyError(ReadonlyMessage)) ELSE Return(Void)

assertWorkspaceAllowed_NoLowerCase(cfg, workspace) ==
    IF TruthyArray(cfg.allowedWorkspaces)
           /\ ~Includes(cfg.allowedWorkspaces.val, workspace)
    THEN Throw(SafetyError(<<"Workspace \"">> \o workspace \o NotInAllowedList
                           \o Join(cfg.allowedWorkspaces.val, <<",", " ">>)))
    ELSE Return(Void)

assertWorkspaceAllowed(cfg, workspace) ==
    IF TruthyArray(cfg.allowedWorkspaces)
           /\ ~Includes(cfg.allowedWorkspaces.val, ToLowerCase(workspace))
    THEN Throw(SafetyError(<<"Workspace \"">> \o workspace \o NotInAllowedList
                           \o Join(cfg.allowedWorkspaces.val, <<",", " ">>)))
    ELSE Return(Void)

RepoListCheck_FullNameOnly(cfg, workspace, repoSlug) ==
    LET fullName == ToLowerCase(workspace \o <<"/">> \o repoSlug)
    IN  IF TruthyArray(cfg.allowedRepos)
               /\ ~Includes(cfg.allowedRepos.val, fullName)
        THEN Throw(SafetyError(<<"Repository \"">> \o workspace \o <<"/">> \o repoSlug
                               \o NotInAllowedList
                               \o Join(cfg.allowedRepos.val, <<",", " ">>)))
        ELSE Return(Void)

\* the repository part of assertRepoAllowed (safety.ts lines 38-49)
RepoListCheck(cfg, workspace, repoSlug) ==
    LET fullName == ToLowerCase(workspace \o <<"/">> \o repoSlug)
        slugOnly == ToLowerCase(repoSlug)
    IN  IF TruthyArray(cfg.allowedRepos)
               /\ ~Includes(cfg.allowedRepos.val, fullName)
               /\ ~Includes(cfg.allowedRepos.val, slugOnly)
        THEN Throw(SafetyError(<<"Repository \"">> \o workspace \o <<"/">> \o repoSlug
                               \o NotInAllowedList
                               \o Join(cfg.allowedRepos.val, <<",", " ">>)))
        ELSE Return(Void)

assertRepoAllowed_NoWorkspaceCheck(cfg, workspace, repoSlug) ==
    RepoListCheck(cfg, workspace, repoSlug)

assertRepoAllowed(cfg, workspace, repoSlug) ==
    LET w == assertWorkspaceAllowed(cfg, workspace)
    IN  IF w.threw THEN w ELSE RepoListCheck(cfg, workspace, repoSlug)

ConfirmationMessage(action) ==
    <<"Destructive action \"">> \o action
        \o <<"\" requires explicit confirmation. Set confirm=true to proceed.">>

assertConfirmed_OnlyFalseFails(confirm, action) ==
    IF confirm.def /\ confirm.val = FALSE
    THEN Throw(SafetyError(ConfirmationMessage(action)))
    ELSE Return(Void)

assertConfirmed_GenericMessage(confirm, action) ==
    IF ~TruthyBoolean(confirm)
    THEN Throw(SafetyError(<<"Destructive action requires explicit confirmation.">>))
    ELSE Return(Void)

assertConfirmed(confirm, action) ==
    IF ~TruthyBoolean(confirm)
    THEN Throw(SafetyError(ConfirmationMessage(action)))
    ELSE Return(Void)

resolveWorkspace_DefaultFirst(cfg, workspace) ==
    IF TruthyString(cfg.defaultWorkspace) THEN Return(cfg.defaultWorkspace.val)
    ELSE IF TruthyString(workspace) THEN Return(workspace.val)
    ELSE Throw(SafetyError(NoWorkspaceMessage))

resolveWorkspace(cfg, workspace) ==
    IF TruthyString(workspace) THEN Return(workspace.val)
    ELSE IF TruthyString(cfg.defaultWorkspace) THEN Return(cfg.defaultWorkspace.val)
    ELSE Throw(SafetyError(NoWorkspaceMessage))

----------------------------------------------------------------------------
(* Inputs *)

ws1 == <<"w", "s", "1">>

WS1 == <<"W", "S", "1">>

ws2 == <<"w", "s", "2">>

repo == <<"r", "e", "p", "o">>

Repo == <<"R", "e", "p", "o">>

lib == <<"l", "i", "b">>

ws1_repo == <<"w", "s", "1", "/", "r", "e", "p", "o">>

EmptyString == <<>>

\* the workspace argument of a tool or of a direct call: z.string().optional()
WorkspaceArgs == {Undefined, Def(EmptyString), Def(ws1), Def(WS1), Def(ws2)}

\* the repo_slug argument: z.string()
RepoSlugs == {repo, Repo, lib, ws1_repo}

\* the confirm argument as the handlers and the tests pass it
ConfirmArgs == {Undefined, Def(FALSE), Def(TRUE)}

ActionLabels ==
    {<<"merge pull request">>, <<"decline pull request">>, <<"delete branch">>,
     <<"test action">>}

MakeConfig(ro, dw, aw, ar) ==
    [readonly |-> ro, defaultWorkspace |-> dw, allowedWorkspaces |-> aw,
     allowedRepos |-> ar,
     email |-> <<"t", "e", "s", "t", "@", "e", "x", "a", "m", "p", "l", "e", ".", "c", "o", "m">>,
     apiToken |-> <<"t", "e", "s", "t", "-", "t", "o", "k", "e", "n">>,
     baseUrl |-> <<"https://", "api.bitbucket.org", "/", "2.0">>]

\* the configurations loadConfig can produce: the lists are trimmed and
\* lower-cased, an empty default workspace is undefined
Configs ==
    {MakeConfig(ro, dw, aw, ar) :
        ro \in BOOLEAN,
        dw \in {Undefined, Def(ws1)},
        aw \in {Undefined, Def(<<ws1>>)},
        ar \in {Undefined, Def(<<ws1_repo>>), Def(<<repo>>)}}

GatewayConfigs ==
    {MakeConfig(ro, dw, aw, ar) :
        ro \in BOOLEAN,
        dw \in {Undefined, Def(ws1), Def(ws2)},
        aw \in {Undefined, Def(<<ws1>>), Def(<<ws1, ws2>>)},
        ar \in {Undefined, Def(<<ws1_repo>>), Def(<<repo>>), Def(<<ws1_repo, lib>>)}}

----------------------------------------------------------------------------
(* Direct calls of the safety.ts functions, as the unit tests make them *)

NoCall == [fn |-> "none"]

Idle == [pc |-> "idle"]

NoRequest == [phase |-> "none"]

NoPagination == [active |-> FALSE]

\* the callers that use one client at the same time
MaxCallers == 2

Callers == 1..MaxCallers

InitRest ==
    /\ inflight = [i \in Callers |-> NoRequest]
    /\ gw = NoCall
    /\ call = Idle
    /\ req = NoRequest
    /\ pag = NoPagination
    /\ sent = <<>>
    /\ fetched = <<>>

InitGateway == config \in GatewayConfigs /\ InitRest

CallAssertNotReadonly ==
    /\ gw' = [fn |-> "assertNotReadonly", out |-> assertNotReadonly(config)]
    /\ UNCHANGED <<config, call, req, pag, sent, fetched, inflight>>

CallAssertWorkspaceAllowed ==
    \E w \in WorkspaceArgs :
        /\ w.def
        /\ gw' = [fn |-> "assertWorkspaceAllowed", workspace |-> w.val,
                  out |-> assertWorkspaceAllowed(config, w.val)]
        /\ UNCHANGED <<config, call, req, pag, sent, fetched, inflight>>

CallAssertRepoAllowed ==
    \E w \in WorkspaceArgs, r \in RepoSlugs :
        /\ w.def
        /\ gw' = [fn |-> "assertRepoAllowed", workspace |-> w.val, repoSlug |-> r,
                  out |-> assertRepoAllowed(config, w.val, r)]
        /\ UNCHANGED <<config, call, req, pag, sent, fetched, inflight>>

CallAssertConfirmed ==
    \E c \in ConfirmArgs, a \in ActionLabels :
        /\ gw' = [fn |-> "assertConfirmed", confirm |-> c, action |-> a,
                  out |-> assertConfirmed(c, a)]
        /\ UNCHANGED <<config, call, req, pag, sent, fetched, inflight>>

CallResolveWorkspace ==
    \E w \in WorkspaceArgs :
        /\ gw' = [fn |-> "resolveWorkspace", workspace |-> w,
                  out |-> resolveWorkspace(config, w)]
        /\ UNCHANGED <<config, call, req, pag, sent, fetched, inflight>>

NextGateway ==
    \/ CallAssertNotReadonly
    \/ CallAssertWorkspaceAllowed
    \/ CallAssertRepoAllowed
    \/ CallAssertConfirmed
    \/ CallResolveWorkspace

SpecGateway == InitGateway /\ [][NextGateway]_vars

IsSafetyViolation(out) == out.threw /\ out.error.name = "SafetyError"

----------------------------------------------------------------------------
(* bitbucket/client.ts *)

BitbucketApiError(statusCode, message) ==
    [name |-> "BitbucketApiError", statusCode |-> statusCode, message |-> message]

TypeError(message) == [name |-> "TypeError", message |-> message]

StripTrailingSlashes_Once(url) ==
    IF Len(url) > 0 /\ url[Len(url)] = "/" THEN SubSeq(url, 1, Len(url) - 1) ELSE url

\* config.baseUrl.replace(/\/+$/, "")
RECURSIVE StripTrailingSlashes(_)
StripTrailingSlashes(url) ==
    IF Len(url) > 0 /\ url[Len(url)] = "/"
    THEN StripTrailingSlashes(SubSeq(url, 1, Len(url) - 1))
    ELSE url

\* the characters with the codes 32 to 126, in the order of their codes; the
\* grave accent (code 96) is written by name
Printable ==
    <<" ", "!", "\"", "#", "$", "%", "&", "'", "(", ")", "*", "+",
      ",", "-", ".", "/", "0", "1", "2", "3", "4", "5", "6", "7",
      "8", "9", ":", ";", "<", "=", ">", "?", "@", "A", "B", "C",
      "D", "E", "F", "G", "H", "I", "J", "K", "L", "M", "N", "O",
      "P", "Q", "R", "S", "T", "U", "V", "W", "X", "Y", "Z", "[",
      "\\", "]", "^", "_", "grave", "a", "b", "c", "d", "e", "f", "g",
      "h", "i", "j", "k", "l", "m", "n", "o", "p", "q", "r", "s",
      "t", "u", "v", "w", "x", "y", "z", "{", "|", "}", "~">>

\* the code of a character
CharCode(c) == 31 + (CHOOSE i \in 1..Len(Printable) : Printable[i] = c)

\* the base64 alphabet, in the order of the values 0 to 63
Base64Chars ==
    <<"A", "B", "C", "D", "E", "F", "G", "H", "I", "J", "K", "L",
      "M", "N", "O", "P", "Q", "R", "S", "T", "U", "V", "W", "X",
      "Y", "Z", "a", "b", "c", "d", "e", "f", "g", "h", "i", "j",
      "k", "l", "m", "n", "o", "p", "q", "r", "s", "t", "u", "v",
      "w", "x", "y", "z", "0", "1", "2", "3", "4", "5", "6", "7",
      "8", "9", "+", "/">>

btoa_Identity(str) == str

\* btoa(str): three bytes give four characters, a shorter tail is padded
RECURSIVE btoa(_)
btoa(str) ==
    IF Len(str) = 0 THEN <<>>
    ELSE LET n == IF Len(str) < 3 THEN Len(str) ELSE 3
             b1 == CharCode(str[1])
             b2 == IF n >= 2 THEN CharCode(str[2]) ELSE 0
             b3 == IF n = 3 THEN CharCode(str[3]) ELSE 0
             v == b1 * 65536 + b2 * 256 + b3
             c1 == Base64Chars[(v \div 262144) + 1]
             c2 == Base64Chars[((v \div 4096) % 64) + 1]
             c3 == IF n >= 2 THEN Base64Chars[((v \div 64) % 64) + 1] ELSE "="
             c4 == IF n = 3 THEN Base64Chars[(v % 64) + 1] ELSE "="
         IN  <<c1, c2, c3, c4>> \o btoa(SubSeq(str, n + 1, Len(str)))

\* the constructor: the fields the requests read
Client(cfg) ==
    [authHeader |-> <<"B", "a", "s", "i", "c", " ">>
                        \o btoa(cfg.email \o <<":">> \o cfg.apiToken),
     baseUrl |-> StripTrailingSlashes(cfg.baseUrl)]

\* path.startsWith("http://") || path.startsWith("https://"); the scheme of an
\* absolute URL is kept as one element
IsAbsolute(path) == Len(path) > 0 /\ path[1] \in {"http://", "https://"}

StartsWithSlash(path) == Len(path) > 0 /\ path[1] = "/"

\* String(n) for a number that is a natural number
RECURSIVE NumberToString(_)
NumberToString(n) ==
    LET digit == CASE n % 10 = 0 -> "0" [] n % 10 = 1 -> "1" [] n % 10 = 2 -> "2"
                   [] n % 10 = 3 -> "3" [] n % 10 = 4 -> "4" [] n % 10 = 5 -> "5"
                   [] n % 10 = 6 -> "6" [] n % 10 = 7 -> "7" [] n % 10 = 8 -> "8"
                   [] OTHER -> "9"
    IN  IF n < 10 THEN <<digit>> ELSE NumberToString(n \div 10) \o <<digit>>

\* an entry of options.params
Param(key, value) == [key |-> key, value |-> value]

\* the values a query parameter may have, besides undefined
Str(chars) == [type |-> "string", chars |-> chars]

Num(n) == [type |-> "number", n |-> n]

Bool(b) == [type |-> "boolean", b |-> b]

\* String(value)
JsString(value) ==
    CASE value.type = "string" -> value.chars
      [] value.type = "number" -> NumberToString(value.n)
      [] value.type = "boolean" ->
            IF value.b THEN <<"t", "r", "u", "e">> ELSE <<"f", "a", "l", "s", "e">>

HexChars ==
    <<"0", "1", "2", "3", "4", "5", "6", "7", "8", "9", "A", "B", "C", "D", "E", "F">>

\* the characters URLSearchParams leaves as they are
Unreserved(c) ==
    LET code == CharCode(c)
    IN  \/ code >= 48 /\ code <= 57
        \/ code >= 65 /\ code <= 90
        \/ code >= 97 /\ code <= 122
        \/ c \in {"*", "-", ".", "_"}

\* URLSearchParams.toString() on one name or value: a space becomes "+", the
\* other reserved characters become %XX
RECURSIVE FormEncode(_)
FormEncode(chars) ==
    IF Len(chars) = 0 THEN <<>>
    ELSE LET c == Head(chars)
             code == CharCode(c)
             e == IF Unreserved(c) THEN <<c>>
                  ELSE IF c = " " THEN <<"+">>
                  ELSE <<"%", HexChars[(code \div 16) + 1], HexChars[(code % 16) + 1]>>
         IN  e \o FormEncode(Tail(chars))

RECURSIVE QueryString_KeepUndefined(_)
QueryString_KeepUndefined(params) ==
    IF Len(params) = 0 THEN <<>>
    ELSE LET p == params[1]
             rest == QueryString_KeepUndefined(Tail(params))
             pair == FormEncode(p.key) \o <<"=">>
                        \o (IF p.value.def THEN FormEncode(JsString(p.value.val))
                            ELSE <<>>)
         IN  IF Len(rest) = 0 THEN pair ELSE pair \o <<"&">> \o rest

\* searchParams.toString(): the entries of options.params whose value is not
\* undefined, as name=value joined by "&"
RECURSIVE QueryString(_)
QueryString(params) ==
    IF Len(params) = 0 THEN <<>>
    ELSE LET p == params[1]
             rest == QueryString(Tail(params))
             pair == FormEncode(p.key) \o <<"=">> \o FormEncode(JsString(p.value.val))
         IN  IF ~p.value.def THEN rest
             ELSE IF Len(rest) = 0 THEN pair
             ELSE pair \o <<"&">> \o rest

\* request(): the URL it fetches
BuildUrl(client, path, params) ==
    LET url == IF IsAbsolute(path) THEN path
               ELSE client.baseUrl
                      \o (IF StartsWithSlash(path) THEN <<>> ELSE <<"/">>) \o path
        qs == IF params.def THEN QueryString(params.val) ELSE <<>>
    IN  IF Len(qs) > 0 THEN url \o <<"?">> \o qs ELSE url

NewRequest_NoAuthOnAbsolute(method, path, params, rawResponse) ==
    [phase |-> "fetch", method |-> method,
     url |-> BuildUrl(Client(config), path, params),
     headers |-> [Authorization |-> IF IsAbsolute(path) THEN <<>>
                                    ELSE Client(config).authHeader],
     rawResponse |-> rawResponse, timer |-> "armed",
     response |-> Undefined, out |-> Undefined]

\* request(): everything up to the await of fetch; the timer is armed and the
\* fetch is in flight. Of the headers the model keeps Authorization; the
\* payload and its Content-Type are left out
NewRequest(method, path, params, rawResponse) ==
    [phase |-> "fetch", method |-> method,
     url |-> BuildUrl(Client(config), path, params),
     headers |-> [Authorization |-> Client(config).authHeader],
     rawResponse |-> rawResponse, timer |-> "armed",
     response |-> Undefined, out |-> Undefined]

Fetch(r) == [method |-> r.method, url |-> r.url, headers |-> r.headers]

\* the verb wrappers: method and rawResponse of each
MethodOf(op) ==
    CASE op = "get" -> "GET" [] op = "getRaw" -> "GET" [] op = "post" -> "POST"
      [] op = "put" -> "PUT" [] op = "del" -> "DELETE"
      [] op = "postFormData" -> "POST" [] op = "paginateAll" -> "GET"

IsRaw_Never(op) == FALSE

IsRaw(op) == op = "getRaw"

\* the default of paginateAll's maxPages parameter
DefaultMaxPages == 10

\* allValues.push(...response.values)
PushAll_Dedup(allValues, values) ==
    allValues \o SelectSeq(values, LAMBDA v : \A i \in 1..Len(allValues) : allValues[i] # v)

PushAll(allValues, values) == allValues \o values

\* a parsed JSON body that is a PaginatedResponse
Envelope(values, next) == [type |-> "envelope", values |-> values, next |-> next]

IsEnvelope(v) == v.type = "envelope"

\* paginateAll(): the frame before the first test of the loop condition
NewPagination(path, params, maxPages) ==
    [active |-> TRUE, allValues |-> <<>>, currentPath |-> Def(path),
     currentParams |-> params, page |-> 0,
     maxPages |-> IF maxPages.def THEN maxPages.val ELSE DefaultMaxPages]

LoopCondition_NoLimit(p) == TruthyString(p.currentPath)

\* while (currentPath && page < maxPages)
LoopCondition(p) == TruthyString(p.currentPath) /\ p.page < p.maxPages

----------------------------------------------------------------------------
(* formatting.ts and the tail of each handler's try block *)

\* what a property read on undefined throws
ReadOfUndefined(prop) ==
    TypeError(<<"Cannot read properties of undefined (reading '", prop, "')">>)

\* an item of a page as a JavaScript value: the pages of the model hold numbers
JsNumber(n) == [type |-> "number", value |-> n]

\* value[prop]: a result envelope has values and, when the page has one, next;
\* the numbers, strings and empty objects of the model have none of the
\* properties the formatters read
Own(value, prop) ==
    IF value.type = "envelope" /\ prop = "values" THEN Def(value.values)
    ELSE IF value.type = "envelope" /\ prop = "next" THEN value.next
    ELSE Undefined

\* optional.a.b.c, the last name may be that of a method about to be called:
\* reading a property of undefined throws
RECURSIVE ReadFrom(_, _)
ReadFrom(optional, chain) ==
    IF chain = <<>> THEN Return(optional)
    ELSE IF ~optional.def THEN Throw(ReadOfUndefined(Head(chain)))
    ELSE ReadFrom(Own(optional.val, Head(chain)), Tail(chain))

\* the reads of a template in the order of their evaluation: the first throw
RECURSIVE FirstThrow(_, _)
ThrowOrRest(read, optional, rest) ==
    IF read.threw THEN read ELSE FirstThrow(optional, rest)

FirstThrow(optional, chains) ==
    IF chains = <<>> THEN Return(Void)
    ELSE ThrowOrRest(ReadFrom(optional, Head(chains)), optional, Tail(chains))

\* String(x) of what a read gave, x || fallback when a fallback is given
TextOr(read, fallback) ==
    IF read.threw \/ ~read.value.def THEN fallback ELSE read.value.val

\* `${optional.a.b}` once the read is known not to throw
Interpolate(optional, chain) == TextOr(ReadFrom(optional, chain), <<"undefined">>)

\* `${x || fallback}`
InterpolateOr(optional, chain, fallback) == TextOr(ReadFrom(optional, chain), fallback)

\* Boolean(x) of what a read gave
IsTruthy(read) == ~read.threw /\ read.value.def

\* x ? a : b on a property
Truthy(optional, chain) == IsTruthy(ReadFrom(optional, chain))

\* what the reads threw, or the text
ThrowOrText(thrown, text) == IF thrown.threw THEN thrown ELSE Return(text)

\* a template whose reads are `chains`: the first throw, or the text
Template(optional, chains, text) == ThrowOrText(FirstThrow(optional, chains), text)

formatUser(user) ==
    Template(user, << <<"display_name">>, <<"nickname">> >>,
             Interpolate(user, <<"display_name">>) \o <<" (@">>
                 \o Interpolate(user, <<"nickname">>) \o <<")">>)

formatWorkspace(ws) ==
    Template(ws, << <<"name">>, <<"slug">> >>,
             Interpolate(ws, <<"name">>) \o <<" [">> \o Interpolate(ws, <<"slug">>) \o <<"]">>)

\* parts.filter(Boolean).join("\n"): description, mainbranch and project
\* lines only for a repository that has them
formatRepository(repository) ==
    Template(repository, << <<"full_name">>, <<"is_private">>, <<"description">>, <<"language">>,
                      <<"mainbranch">>, <<"project">>, <<"updated_on">> >>,
             Join(<<Interpolate(repository, <<"full_name">>)
                        \o (IF Truthy(repository, <<"is_private">>)
                            THEN <<" (private)">> ELSE <<" (public)">>)>>
                  \o (IF Truthy(repository, <<"description">>)
                      THEN <<(<<"  Description: ">> \o Interpolate(repository, <<"description">>))>>
                      ELSE <<>>)
                  \o <<(<<"  Language: ">> \o InterpolateOr(repository, <<"language">>, <<"not set">>))>>
                  \o (IF Truthy(repository, <<"mainbranch">>)
                      THEN <<(<<"  Main branch: ">> \o Interpolate(repository, <<"mainbranch", "name">>))>>
                      ELSE <<>>)
                  \o (IF Truthy(repository, <<"project">>)
                      THEN <<(<<"  Project: ">> \o Interpolate(repository, <<"project", "name">>)
                                \o <<" [">> \o Interpolate(repository, <<"project", "key">>) \o <<"]">>)>>
                      ELSE <<>>)
                  \o <<(<<"  Updated: ">> \o Interpolate(repository, <<"updated_on">>))>>,
                  <<"\n">>))

\* the text of the formatters below for a value that has the fields they
\* read is not modelled: one element that names it
formatBranch(branch) ==
    Template(branch, << <<"name">>, <<"target", "hash", "substring">>,
                        <<"target", "message", "split">> >>,
             <<"{branch}">>)

formatCommit(commit) ==
    Template(commit, << <<"hash", "substring">>, <<"message", "split">>,
                        <<"author", "user">>, <<"author", "raw">>, <<"date">> >>,
             <<"{commit}">>)

\* formatUser(pr.author) reads author.display_name
formatPullRequest(pr) ==
    Template(pr, << <<"id">>, <<"title">>, <<"state">>,
                    <<"author", "display_name">>, <<"author", "nickname">>,
                    <<"source", "branch", "name">>, <<"destination", "branch", "name">>,
                    <<"description">>, <<"created_on">>, <<"updated_on">>,
                    <<"comment_count">>, <<"task_count">>,
                    <<"participants", "length">>, <<"reviewers", "length">> >>,
             <<"{pull request}">>)

formatPRComment(comment) ==
    Template(comment, << <<"inline">>, <<"parent">>, <<"id">>, <<"user", "display_name">>,
                         <<"created_on">>, <<"content", "raw">> >>,
             <<"{comment}">>)

formatIssue(issue) ==
    Template(issue, << <<"id">>, <<"title">>, <<"state">>, <<"priority">>, <<"kind">>,
                       <<"reporter", "display_name">>, <<"reporter", "nickname">>,
                       <<"assignee">>, <<"content", "raw">>, <<"created_on">>,
                       <<"updated_on">>, <<"votes">>, <<"watches">> >>,
             <<"{issue}">>)

formatIssueComment(comment) ==
    Template(comment, << <<"id">>, <<"user", "display_name">>, <<"created_on">>,
                         <<"content", "raw">> >>,
             <<"{comment}">>)

formatPipeline(pipeline) ==
    Template(pipeline, << <<"state", "result">>, <<"state", "name">>, <<"target", "ref_name">>,
                          <<"duration_in_seconds">>, <<"build_number">>,
                          <<"creator", "display_name">>, <<"created_on">> >>,
             <<"{pipeline}">>)

\* what a list formatter returns for an empty array
EmptyListText(formatter) ==
    CASE formatter = "formatWorkspaceList" -> <<"No workspaces found.">>
      [] formatter = "formatRepositoryList" -> <<"No repositories found.">>
      [] formatter = "formatBranchList" -> <<"No branches found.">>
      [] formatter = "formatCommitList" -> <<"No commits found.">>
      [] formatter = "formatPullRequestList" -> <<"No pull requests found.">>
      [] formatter = "formatPRActivity" -> <<"No activity found.">>
      [] formatter = "formatDiffStat" -> <<"No changes.">>
      [] formatter = "formatIssueList" -> <<"No issues found.">>
      [] formatter = "formatPipelineList" -> <<"No pipelines found.">>

\* `- ${text}` of an item formatter
Bullet(formatted) ==
    IF formatted.threw THEN formatted ELSE Return(<<"- ">> \o formatted.value)

\* the callback of map() in a list formatter, for one item
FormatItem(formatter, item) ==
    CASE formatter = "formatWorkspaceList" -> Bullet(formatWorkspace(item))
      [] formatter = "formatRepositoryList" ->
            Template(item, << <<"full_name">>, <<"is_private">>, <<"language">>,
                              <<"updated_on">> >>,
                     <<"- ">> \o Interpolate(item, <<"full_name">>)
                         \o (IF Truthy(item, <<"is_private">>) THEN <<" (private)">> ELSE <<>>)
                         \o <<" | ">> \o InterpolateOr(item, <<"language">>, <<"n/a">>)
                         \o <<" | updated ">> \o Interpolate(item, <<"updated_on">>))
      [] formatter = "formatBranchList" -> Bullet(formatBranch(item))
      [] formatter = "formatCommitList" -> formatCommit(item)
      [] formatter = "formatPullRequestList" ->
            Template(item, << <<"id">>, <<"state">>, <<"title">>,
                              <<"source", "branch", "name">>,
                              <<"destination", "branch", "name">>,
                              <<"author", "display_name">> >>,
                     <<"{pull request line}">>)
      [] formatter = "formatPRActivity" ->
            IF Truthy(item, <<"comment">>)
            THEN formatPRComment(ReadFrom(item, <<"comment">>).value)
            ELSE IF Truthy(item, <<"approval">>) \/ Truthy(item, <<"update">>)
            THEN Return(<<"{activity}">>)
            ELSE Return(<<"[unknown activity]">>)
      [] formatter = "formatDiffStat" ->
            Template(item, << <<"new">>, <<"old">>, <<"status", "padEnd">>,
                              <<"lines_added">>, <<"lines_removed">> >>,
                     <<"{diffstat line}">>)
      [] formatter = "formatIssueList" ->
            Template(item, << <<"id">>, <<"state">>, <<"title">>, <<"priority">>, <<"kind">>,
                              <<"reporter", "display_name">> >>,
                     <<"{issue line}">>)
      [] formatter = "formatPipelineList" -> Bullet(formatPipeline(item))

\* a line in front of the lines after it, or what either threw
Cons(line, rest) ==
    IF line.threw THEN line
    ELSE IF rest.threw THEN rest
    ELSE Return(<<line.value>> \o rest.value)

\* array.map(callback): the lines, or what the first failing callback throws
RECURSIVE MapItems(_, _)
MapItems(formatter, items) ==
    IF items = <<>> THEN Return(<<>>)
    ELSE Cons(FormatItem(formatter, Def(JsNumber(Head(items)))),
              MapItems(formatter, Tail(items)))

\* lines.join("\n"); formatDiffStat adds its total line
JoinLines(formatter, lines) ==
    IF lines.threw THEN lines
    ELSE Return(Join(lines.value, <<"\n">>)
                \o (IF formatter = "formatDiffStat" THEN <<"\n", "{total}">> ELSE <<>>))

\* a list formatter: array.length, the text for no items, else the lines
FormatList(formatter, array) ==
    IF ~array.def THEN Throw(ReadOfUndefined("length"))
    ELSE IF array.val = <<>> THEN Return(EmptyListText(formatter))
    ELSE JoinLines(formatter, MapItems(formatter, array.val))

\* the formatter each handler calls, and whether on the value or on its values
FormatterOf(tool) ==
    CASE tool = "bb_whoami" -> "formatUser"
      [] tool = "bb_list_workspaces" -> "formatWorkspaceList"
      [] tool = "bb_list_repositories" -> "formatRepositoryList"
      [] tool = "bb_get_repository" -> "formatRepository"
      [] tool = "bb_list_branches" -> "formatBranchList"
      [] tool = "bb_list_commits" -> "formatCommitList"
      [] tool = "bb_create_branch" -> "formatBranch"
      [] tool = "bb_list_directory" -> "formatDirectoryListing"
      [] tool = "bb_search_code" -> "formatCodeSearchResults"
      [] tool = "bb_list_pull_requests" -> "formatPullRequestList"
      [] tool \in {"bb_get_pull_request", "bb_create_pull_request", "bb_merge_pull_request",
                   "bb_update_pull_request", "bb_decline_pull_request"} -> "formatPullRequest"
      [] tool = "bb_get_pull_request_diffstat" -> "formatDiffStat"
      [] tool = "bb_list_pull_request_activity" -> "formatPRActivity"
      [] tool = "bb_add_pull_request_comment" -> "formatPRComment"
      [] tool = "bb_list_issues" -> "formatIssueList"
      [] tool \in {"bb_get_issue", "bb_create_issue"} -> "formatIssue"
      [] tool = "bb_comment_issue" -> "formatIssueComment"
      [] tool = "bb_list_pipelines" -> "formatPipelineList"
      [] tool \in {"bb_get_pipeline", "bb_trigger_pipeline"} -> "formatPipeline"
      [] OTHER -> "none"

PaginatingTools ==
    {"bb_list_workspaces", "bb_get_pull_request_diffstat", "bb_list_pull_request_activity"}

\* the rest of the try block once the client has returned `value`: the text
\* of the result, or what the formatter throws. The arguments that the model
\* fixes appear as the paths have them: pull request 1, branch "feature";
\* bb_create_commit_files commits one file to "main". formatDirectoryListing
\* and formatCodeSearchResults are imported by repos.ts from a formatting.ts
\* that does not define them: their text is one element that names it
TextOf(tool, value) ==
    LET formatter == FormatterOf(tool)
    IN  CASE tool = "bb_get_pull_request_diff" ->
                Return(<<"Note: Diff output may be truncated for large changes. Use bb_get_pull_request_diffstat for a summary of all changed files.\n\n">>
                       \o value.text)
          [] tool = "bb_get_file" -> Return(value.text)
          [] tool = "bb_approve_pull_request" ->
                Return(<<"Pull request #", "1", " approved.">>)
          [] tool = "bb_request_changes_pull_request" ->
                Return(<<"Changes requested on pull request #", "1", ".">>)
          [] tool = "bb_create_commit_files" ->
                Return(<<"Successfully committed ", "1", " file(s) to ", "main">>)
          [] tool = "bb_delete_branch" ->
                Return(<<"Branch \"", "feature", "\" deleted successfully.">>)
          [] formatter = "formatDirectoryListing" -> Return(<<"{directory listing}">>)
          [] formatter = "formatCodeSearchResults" -> Return(<<"{code search results}">>)
          [] tool \in PaginatingTools -> FormatList(formatter, Def(value))
          [] formatter \in {"formatRepositoryList", "formatBranchList", "formatCommitList",
                            "formatPullRequestList", "formatIssueList",
                            "formatPipelineList"} ->
                FormatList(formatter, Own(value, "values"))
          [] formatter = "formatUser" -> formatUser(Def(value))
          [] formatter = "formatRepository" -> formatRepository(Def(value))
          [] formatter = "formatBranch" -> formatBranch(Def(value))
          [] formatter = "formatPullRequest" -> formatPullRequest(Def(value))
          [] formatter = "formatPRComment" -> formatPRComment(Def(value))
          [] formatter = "formatIssue" -> formatIssue(Def(value))
          [] formatter = "formatIssueComment" -> formatIssueComment(Def(value))
          [] formatter = "formatPipeline" -> formatPipeline(Def(value))

----------------------------------------------------------------------------
(* The caller of a client operation: a tool handler or a direct call *)

ErrorResult_NoFlag(error) == [isError |-> FALSE, text |-> <<"Error: ">> \o error.message]

\* the catch block shared by every handler
ErrorResult(error) == [isError |-> TRUE, text |-> <<"Error: ">> \o error.message]

\* the return of the try block
TextResult(text) == [isError |-> FALSE, text |-> text]

\* the try block of a handler after its await: the client's error, or the
\* text of the result, or the error of the formatter
TryBlock(tool, out) == IF out.threw THEN out ELSE TextOf(tool, out.value)

\* what the handler returns: from the try block or from the catch block
HandlerResult(tried) ==
    IF tried.threw THEN ErrorResult(tried.error) ELSE TextResult(tried.value)

\* a direct caller of the client has no tool result
NoResult == [isError |-> FALSE, text |-> <<>>]

\* the awaited client operation settles with `out` and its caller runs to its
\* end: a handler runs the rest of its try block and returns a result, a
\* direct caller keeps the outcome
Finish(out) ==
    call' = [call EXCEPT
                !.pc = "done",
                !.out = IF call.handler THEN TryBlock(call.tool, out) ELSE out,
                !.result = IF call.handler THEN HandlerResult(TryBlock(call.tool, out))
                           ELSE NoResult]

\* a caller whose checks have passed starts a client operation; c is the
\* caller's frame at its await
Start(c, op, path, params, maxPages) ==
    IF op = "paginateAll"
    THEN LET p == NewPagination(path, params, maxPages)
         IN  IF LoopCondition(p)
             THEN LET r == NewRequest("GET", path, params, FALSE)
                  IN  /\ call' = c
                      /\ pag' = p
                      /\ req' = r
                      /\ sent' = <<Fetch(r)>>
                      /\ fetched' = <<>>
             ELSE /\ LET out == Return(p.allValues)
                     IN  call' = [c EXCEPT
                                     !.pc = "done",
                                     !.out = IF c.handler THEN TryBlock(c.tool, out) ELSE out,
                                     !.result = IF c.handler
                                                THEN HandlerResult(TryBlock(c.tool, out))
                                                ELSE NoResult]
                  /\ pag' = [p EXCEPT !.active = FALSE]
                  /\ req' = NoRequest
                  /\ sent' = <<>>
                  /\ fetched' = <<>>
    ELSE LET r == NewRequest(MethodOf(op), path, params, IsRaw(op))
         IN  /\ call' = c
             /\ pag' = NoPagination
             /\ req' = r
             /\ sent' = <<Fetch(r)>>
             /\ fetched' = <<>>

Settled_NoClear(out, timer) ==
    [req EXCEPT !.phase = "settled", !.out = out,
                !.timer = IF timer = "fired" THEN "fired" ELSE "armed"]

\* request() settles with `out` and leaves through finally; timer is the
\* state clearTimeout leaves: "cleared", or "fired" when it had fired
Settled(out, timer) == [req EXCEPT !.phase = "settled", !.timer = timer, !.out = out]

PageFailed_Partial(out, timer) ==
    /\ Finish(Return(pag.allValues))
    /\ req' = Settled(out, timer)
    /\ pag' = [pag EXCEPT !.active = FALSE]
    /\ UNCHANGED <<sent, fetched>>

\* `await this.get(...)` throws in paginateAll: nothing catches it, the
\* rejection is paginateAll's own and allValues goes with the frame
PageFailed(out, timer) ==
    /\ Finish(out)
    /\ req' = Settled(out, timer)
    /\ pag' = [pag EXCEPT !.active = FALSE]
    /\ UNCHANGED <<sent, fetched>>

IssueNext_Ahead(s, r) == s \o <<Fetch(r), Fetch(r)>>

\* one iteration of the loop awaits one get: one fetch, issued when the
\* iteration starts
IssueNext(s, r) == Append(s, Fetch(r))

Advance_KeepParams(p, next) ==
    [p EXCEPT !.currentPath = next, !.page = p.page + 1]

\* the page has a next link: the loop goes on with it and drops the params
Advance(p, next) ==
    [p EXCEPT !.currentPath = next, !.currentParams = Undefined, !.page = p.page + 1]

\* the continuation of `await this.get(...)` in paginateAll
PaginateResume(out, timer) ==
    IF out.threw
    THEN PageFailed(out, timer)
    ELSE IF ~IsEnvelope(out.value)
    THEN /\ Finish(Throw(TypeError(
                <<"response.values is not iterable (cannot read property undefined)">>)))
         /\ req' = Settled(out, timer)
         /\ pag' = [pag EXCEPT !.active = FALSE]
         /\ UNCHANGED <<sent, fetched>>
    ELSE LET response == out.value
             all == PushAll(pag.allValues, response.values)
             more == TruthyString(response.next)
             p == IF more
                  THEN Advance([pag EXCEPT !.allValues = all], response.next)
                  ELSE [pag EXCEPT !.allValues = all]
         IN  /\ fetched' = Append(fetched, response.values)
             /\ IF more /\ LoopCondition(p)
                THEN LET r == NewRequest("GET", p.currentPath.val, p.currentParams, FALSE)
                     IN  /\ pag' = p
                         /\ req' = r
                         /\ sent' = IssueNext(sent, r)
                         /\ UNCHANGED call
                ELSE /\ pag' = [p EXCEPT !.active = FALSE]
                     /\ req' = Settled(out, timer)
                     /\ Finish(Return(all))
                     /\ UNCHANGED sent

Settle_RetryOnce(out, timer) ==
    IF out.threw /\ Len(sent) < 2
    THEN /\ req' = [req EXCEPT !.phase = "fetch", !.timer = "armed", !.response = Undefined]
         /\ sent' = Append(sent, Fetch(req))
         /\ UNCHANGED <<call, pag, fetched>>
    ELSE IF pag.active
    THEN PaginateResume(out, timer)
    ELSE /\ Finish(out)
         /\ req' = Settled(out, timer)
         /\ UNCHANGED <<pag, sent, fetched>>

\* request() settles: its caller resumes
Settle(out, timer) ==
    IF pag.active
    THEN PaginateResume(out, timer)
    ELSE /\ Finish(out)
         /\ req' = Settled(out, timer)
         /\ UNCHANGED <<pag, sent, fetched>>

----------------------------------------------------------------------------
(* The network and the timer *)

NextUrl == <<"https://", "api.bitbucket.org", "/", "2.0", "/", "items?page=2">>

\* the server supplies next links for at most this many pages of one call
MaxServerPages == 3

\* the item lists a page may hold
PageValues == {<<>>, <<1>>, <<1, 2>>, <<3, 4>>, <<2, 1>>}

JsonResponses(values) ==
    {[status |-> 200, contentType |-> Def(<<"application/json", "; charset=utf-8">>),
      body |-> Envelope(v, n)] :
        v \in values, n \in {Undefined, Def(NextUrl)}}

\* a body that is not JSON, by its characters
Text(t) == [type |-> "text", text |-> t]

ErrorResponses ==
    {[status |-> st, contentType |-> Def(<<"text/plain">>), body |-> Text(<<"N", "o">>)] :
        st \in {404, 500}}

Ok_Below400(response) == response.status >= 200 /\ response.status <= 399

\* response.ok
Ok(response) == response.status >= 200 /\ response.status <= 299

\* fetch resolves with a response: request() goes on to read the body
FetchResolves(responses) ==
    /\ call.pc = "await"
    /\ req.phase = "fetch"
    /\ \E response \in responses :
          /\ (response.body.type = "envelope" /\ response.body.next.def)
                => Len(fetched) + 1 < MaxServerPages
          /\ req' = [req EXCEPT !.phase = "body", !.response = response]
    /\ UNCHANGED <<config, gw, call, pag, sent, fetched, inflight>>



\* the longest error body kept in an error message
TruncateAt == 2000

Truncate_Never(text) == text

Truncate(text) ==
    IF Len(text) > TruncateAt THEN SubSeq(text, 1, TruncateAt) \o <<".", ".", ".">>
    ELSE text

\* response.text(): the characters of the body; the text of a JSON body is
\* one element
BodyText(body) == IF body.type = "text" THEN body.text ELSE <<"{json}">>

\* what fetch or a body read rejects with when the signal is aborted: the
\* DOMException named AbortError
AbortError == [name |-> "AbortError", message |-> <<"This operation was aborted">>]

\* what fetch rejects with when the network fails
FetchFailed == TypeError(<<"fetch failed">>)

\* what a body read rejects with when the connection drops
BodyFailed == TypeError(<<"terminated">>)

\* what response.json() rejects with when the body is no JSON: the message
\* of JSON.parse for an empty text, and for a short text whose first
\* character cannot start a JSON value
SyntaxError(text) ==
    [name |-> "SyntaxError",
     message |-> IF text = <<>> THEN <<"Unexpected end of JSON input">>
                 ELSE <<"Unexpected token '", text[1], "', \"">> \o text
                          \o <<"\" is not valid JSON">>]

TimeoutError == BitbucketApiError(408, <<"Request timed out">>)

Catch_NoAbortCase(error) ==
    IF error.name = "BitbucketApiError" THEN error
    ELSE BitbucketApiError(0, <<"Network error: ">> \o error.message)

Catch_NetworkAs503(error) ==
    IF error.name = "BitbucketApiError" THEN error
    ELSE IF error.name = "AbortError" THEN TimeoutError
    ELSE BitbucketApiError(503, <<"Network error: ">> \o error.message)

\* the catch block of request(): what it throws for what it caught
Catch(error) ==
    IF error.name = "BitbucketApiError" THEN error
    ELSE IF error.name = "AbortError" THEN TimeoutError
    ELSE BitbucketApiError(0, <<"Network error: ">> \o error.message)

\* "Bitbucket API error ", by its characters
ApiErrorPrefix ==
    <<"B", "i", "t", "b", "u", "c", "k", "e", "t", " ",
      "A", "P", "I", " ", "e", "r", "r", "o", "r", " ">>

\* the outcome of request() once the body has been read
Outcome(r) ==
    LET response == r.response
        contentType == IF response.contentType.def THEN response.contentType.val ELSE <<>>
    IN  IF ~Ok(response)
        THEN Throw(Catch(BitbucketApiError(response.status,
                 ApiErrorPrefix \o NumberToString(response.status)
                     \o <<":", " ">> \o Truncate(BodyText(response.body)))))
        ELSE IF r.rawResponse THEN Return(Text(BodyText(response.body)))
        ELSE IF Contains(contentType, <<"application/json">>)
        THEN IF response.body.type = "text"
             THEN Throw(Catch(SyntaxError(response.body.text)))
             ELSE Return(response.body)
        ELSE Return(Text(BodyText(response.body)))

\* the body has been read: request() returns or throws, finally clears the
\* timer, and its caller resumes
BodyResolves ==
    /\ call.pc = "await"
    /\ req.phase = "body"
    /\ Settle(Outcome(req), "cleared")
    /\ UNCHANGED <<config, gw, inflight>>

NetworkError == Catch(FetchFailed)

\* fetch rejects (DNS, connection refused): the catch block wraps the error
FetchRejects ==
    /\ call.pc = "await"
    /\ req.phase = "fetch"
    /\ Settle(Throw(NetworkError), "cleared")
    /\ UNCHANGED <<config, gw, inflight>>

\* reading the body rejects (the connection drops): the same catch block
BodyRejects ==
    /\ call.pc = "await"
    /\ req.phase = "body"
    /\ Settle(Throw(Catch(BodyFailed)), "cleared")
    /\ UNCHANGED <<config, gw, inflight>>

TimerFires_FetchOnly ==
    /\ call.pc = "await"
    /\ req.phase = "fetch"
    /\ req.timer = "armed"
    /\ Settle(Throw(Catch(AbortError)), "fired")
    /\ UNCHANGED <<config, gw, inflight>>

\* the timer fires: controller.abort() rejects the pending fetch or body read
\* with an AbortError, which the catch block turns into status 408
TimerFires ==
    /\ call.pc = "await"
    /\ req.phase \in {"fetch", "body"}
    /\ req.timer = "armed"
    /\ Settle(Throw(Catch(AbortError)), "fired")
    /\ UNCHANGED <<config, gw, inflight>>

----------------------------------------------------------------------------
(* The tool handlers *)

\* the arguments the handlers are called with; the optional arguments that
\* only reach the query string or the body are left out (undefined)
MakeArgs(w, r, c) == [workspace |-> w, repo_slug |-> r, confirm |-> c]

NoArgs == {MakeArgs(Undefined, Undefined, Undefined)}

WorkspaceOnlyArgs == {MakeArgs(w, Undefined, Undefined) : w \in WorkspaceArgs \ {Def(ws1)}}

RepoArgs ==
    {MakeArgs(w, Def(r), Undefined) : w \in WorkspaceArgs \ {Def(ws1)}, r \in RepoSlugs \ {repo}}

ConfirmRepoArgs ==
    {MakeArgs(w, Def(r), c) :
        w \in WorkspaceArgs \ {Def(ws1)}, r \in RepoSlugs \ {repo}, c \in ConfirmArgs}

\* repo_slug is optional for bb_search_code
SearchArgs ==
    {MakeArgs(w, r, Undefined) :
        w \in WorkspaceArgs \ {Def(ws1)},
        r \in {Undefined, Def(EmptyString), Def(Repo), Def(lib)}}

\* `/repositories/${ws}/${args.repo_slug}`, the start of most paths
RepoPath == <<"/", "repositories", "/", "${ws}", "/", "${args.repo_slug}">>

\* a template literal with its placeholders filled in
RECURSIVE Expand(_, _, _)
Expand(template, ws, args) ==
    IF Len(template) = 0 THEN <<>>
    ELSE LET part == IF Head(template) = "${ws}" THEN ws.val
                     ELSE IF Head(template) = "${args.repo_slug}" THEN args.repo_slug.val
                     ELSE <<Head(template)>>
         IN  part \o Expand(Tail(template), ws, args)

\* the checks of a try block, run in the order the handler lists them, up to
\* the first that throws; ws is the workspace resolved so far
RECURSIVE RunChecks(_, _, _, _)
RunChecks(checks, cfg, args, ws) ==
    IF Len(checks) = 0 THEN [threw |-> FALSE, ws |-> ws]
    ELSE LET c == Head(checks)
             r == CASE c.fn = "assertNotReadonly" -> assertNotReadonly(cfg)
                    [] c.fn = "assertConfirmed" -> assertConfirmed(args.confirm, c.action)
                    [] c.fn = "resolveWorkspace" -> resolveWorkspace(cfg, args.workspace)
                    [] c.fn = "assertRepoAllowed" ->
                           assertRepoAllowed(cfg, ws.val, args.repo_slug.val)
                    [] c.fn = "assertWorkspaceAllowed" -> assertWorkspaceAllowed(cfg, ws.val)
                    [] c.fn = "assertRepoOrWorkspaceAllowed" ->
                           IF TruthyString(args.repo_slug)
                           THEN assertRepoAllowed(cfg, ws.val, args.repo_slug.val)
                           ELSE assertWorkspaceAllowed(cfg, ws.val)
         IN  IF r.threw THEN [threw |-> TRUE, error |-> r.error, ws |-> ws]
             ELSE RunChecks(Tail(checks), cfg, args,
                            IF c.fn = "resolveWorkspace" THEN Def(r.value) ELSE ws)

NewCall(tool, args) ==
    [pc |-> "await", handler |-> TRUE, tool |-> tool, args |-> args, ws |-> Undefined,
     out |-> Undefined, result |-> Undefined]

\* a handler is invoked: its try block runs the checks and, when none throws,
\* calls the client and awaits it; a throw goes to the catch block
Handler(tool, argSet, checks, op, path, params) ==
    /\ call.pc = "idle"
    /\ \E args \in argSet :
          LET pre == RunChecks(checks, config, args, Undefined)
          IN  IF pre.threw
              THEN /\ call' = [NewCall(tool, args) EXCEPT
                                  !.pc = "done", !.ws = pre.ws,
                                  !.out = Throw(pre.error),
                                  !.result = ErrorResult(pre.error)]
                   /\ req' = NoRequest
                   /\ pag' = NoPagination
                   /\ sent' = <<>>
                   /\ fetched' = <<>>
              ELSE Start([NewCall(tool, args) EXCEPT !.ws = pre.ws],
                         op, Expand(path, pre.ws, args), params, Undefined)
    /\ UNCHANGED <<config, gw, inflight>>

bb_whoami ==
    Handler("bb_whoami", NoArgs,
            <<>>,
            "get",
            <<"/", "user">>,
            Undefined)

bb_list_workspaces ==
    Handler("bb_list_workspaces", NoArgs,
            <<>>,
            "paginateAll",
            <<"/", "workspaces">>,
            Undefined)

bb_list_repositories ==
    Handler("bb_list_repositories", WorkspaceOnlyArgs,
            <<[fn |-> "resolveWorkspace"], [fn |-> "assertWorkspaceAllowed"]>>,
            "get",
            <<"/", "repositories", "/", "${ws}">>,
            Def(<<Param(<<"q">>, Undefined),
                  Param(<<"p", "a", "g", "e">>, Undefined),
                  Param(<<"p", "a", "g", "e", "l", "e", "n">>, Undefined)>>))

bb_get_repository ==
    Handler("bb_get_repository", RepoArgs,
            <<[fn |-> "resolveWorkspace"], [fn |-> "assertRepoAllowed"]>>,
            "get",
            RepoPath,
            Undefined)

bb_list_branches ==
    Handler("bb_list_branches", RepoArgs,
            <<[fn |-> "resolveWorkspace"], [fn |-> "assertRepoAllowed"]>>,
            "get",
            RepoPath \o <<"/refs/branches">>,
            Def(<<Param(<<"q">>, Undefined),
                  Param(<<"p", "a", "g", "e">>, Undefined),
                  Param(<<"p", "a", "g", "e", "l", "e", "n">>, Undefined)>>))

bb_list_commits ==
    Handler("bb_list_commits", RepoArgs,
            <<[fn |-> "resolveWorkspace"], [fn |-> "assertRepoAllowed"]>>,
            "get",
            RepoPath \o <<"/commits">>,
            Def(<<Param(<<"p", "a", "g", "e">>, Undefined),
                  Param(<<"p", "a", "g", "e", "l", "e", "n">>, Undefined)>>))

bb_get_file ==
    Handler("bb_get_file", RepoArgs,
            <<[fn |-> "resolveWorkspace"], [fn |-> "assertRepoAllowed"]>>,
            "getRaw",
            RepoPath \o <<"/src/", "main", "/", "README.md">>,
            Undefined)

bb_create_commit_files ==
    Handler("bb_create_commit_files", RepoArgs,
            <<[fn |-> "assertNotReadonly"], [fn |-> "resolveWorkspace"], [fn |-> "assertRepoAllowed"]>>,
            "postFormData",
            RepoPath \o <<"/src">>,
            Undefined)

bb_create_branch ==
    Handler("bb_create_branch", RepoArgs,
            <<[fn |-> "assertNotReadonly"], [fn |-> "resolveWorkspace"], [fn |-> "assertRepoAllowed"]>>,
            "post",
            RepoPath \o <<"/refs/branches">>,
            Undefined)

bb_delete_branch_ConfirmFirst ==
    Handler("bb_delete_branch", ConfirmRepoArgs,
            <<[fn |-> "assertConfirmed", action |-> <<"delete branch">>], [fn |-> "assertNotReadonly"], [fn |-> "resolveWorkspace"], [fn |-> "assertRepoAllowed"]>>,
            "del",
            RepoPath \o <<"/refs/branches/", "feature">>,
            Undefined)

bb_delete_branch ==
    Handler("bb_delete_branch", ConfirmRepoArgs,
            <<[fn |-> "assertNotReadonly"], [fn |-> "assertConfirmed", action |-> <<"delete branch">>], [fn |-> "resolveWorkspace"], [fn |-> "assertRepoAllowed"]>>,
            "del",
            RepoPath \o <<"/refs/branches/", "feature">>,
            Undefined)

bb_list_directory ==
    Handler("bb_list_directory", RepoArgs,
            <<[fn |-> "resolveWorkspace"], [fn |-> "assertRepoAllowed"]>>,
            "get",
            RepoPath \o <<"/src/", "HEAD">>,
            Def(<<Param(<<"p", "a", "g", "e">>, Undefined),
                  Param(<<"p", "a", "g", "e", "l", "e", "n">>, Undefined)>>))

bb_search_code ==
    \/ Handler("bb_search_code", {a \in SearchArgs : TruthyString(a.repo_slug)},
               <<[fn |-> "resolveWorkspace"], [fn |-> "assertRepoOrWorkspaceAllowed"]>>,
               "get",
               RepoPath \o <<"/search/code">>,
               Def(<<Param(<<"s", "e", "a", "r", "c", "h", "_", "q", "u", "e", "r", "y">>, Def(Str(<<"q">>))),
                     Param(<<"p", "a", "g", "e">>, Undefined),
                     Param(<<"p", "a", "g", "e", "l", "e", "n">>, Undefined)>>))
    \/ Handler("bb_search_code", {a \in SearchArgs : ~TruthyString(a.repo_slug)},
               <<[fn |-> "resolveWorkspace"], [fn |-> "assertRepoOrWorkspaceAllowed"]>>,
               "get",
               <<"/", "workspaces", "/", "${ws}", "/search/code">>,
               Def(<<Param(<<"s", "e", "a", "r", "c", "h", "_", "q", "u", "e", "r", "y">>, Def(Str(<<"q">>))),
                     Param(<<"p", "a", "g", "e">>, Undefined),
                     Param(<<"p", "a", "g", "e", "l", "e", "n">>, Undefined)>>))

bb_list_pull_requests ==
    Handler("bb_list_pull_requests", RepoArgs,
            <<[fn |-> "resolveWorkspace"], [fn |-> "assertRepoAllowed"]>>,
            "get",
            RepoPath \o <<"/pullrequests">>,
            Def(<<Param(<<"s", "t", "a", "t", "e">>, Undefined),
                  Param(<<"p", "a", "g", "e">>, Undefined),
                  Param(<<"p", "a", "g", "e", "l", "e", "n">>, Undefined)>>))

bb_get_pull_request ==
    Handler("bb_get_pull_request", RepoArgs,
            <<[fn |-> "resolveWorkspace"], [fn |-> "assertRepoAllowed"]>>,
            "get",
            RepoPath \o <<"/pullrequests/", "1">>,
            Undefined)

bb_create_pull_request ==
    Handler("bb_create_pull_request", RepoArgs,
            <<[fn |-> "assertNotReadonly"], [fn |-> "resolveWorkspace"], [fn |-> "assertRepoAllowed"]>>,
            "post",
            RepoPath \o <<"/pullrequests">>,
            Undefined)

bb_get_pull_request_diff ==
    Handler("bb_get_pull_request_diff", RepoArgs,
            <<[fn |-> "resolveWorkspace"], [fn |-> "assertRepoAllowed"]>>,
            "getRaw",
            RepoPath \o <<"/pullrequests/", "1", "/diff">>,
            Undefined)

bb_get_pull_request_diffstat ==
    Handler("bb_get_pull_request_diffstat", RepoArgs,
            <<[fn |-> "resolveWorkspace"], [fn |-> "assertRepoAllowed"]>>,
            "paginateAll",
            RepoPath \o <<"/pullrequests/", "1", "/diffstat">>,
            Undefined)

bb_list_pull_request_activity ==
    Handler("bb_list_pull_request_activity", RepoArgs,
            <<[fn |-> "resolveWorkspace"], [fn |-> "assertRepoAllowed"]>>,
            "paginateAll",
            RepoPath \o <<"/pullrequests/", "1", "/activity">>,
            Undefined)

bb_add_pull_request_comment ==
    Handler("bb_add_pull_request_comment", RepoArgs,
            <<[fn |-> "assertNotReadonly"], [fn |-> "resolveWorkspace"], [fn |-> "assertRepoAllowed"]>>,
            "post",
            RepoPath \o <<"/pullrequests/", "1", "/comments">>,
            Undefined)

bb_approve_pull_request ==
    Handler("bb_approve_pull_request", RepoArgs,
            <<[fn |-> "assertNotReadonly"], [fn |-> "resolveWorkspace"], [fn |-> "assertRepoAllowed"]>>,
            "post",
            RepoPath \o <<"/pullrequests/", "1", "/approve">>,
            Undefined)

bb_request_changes_pull_request ==
    Handler("bb_request_changes_pull_request", RepoArgs,
            <<[fn |-> "assertNotReadonly"], [fn |-> "resolveWorkspace"], [fn |-> "assertRepoAllowed"]>>,
            "post",
            RepoPath \o <<"/pullrequests/", "1", "/request-changes">>,
            Undefined)

bb_merge_pull_request ==
    Handler("bb_merge_pull_request", ConfirmRepoArgs,
            <<[fn |-> "assertNotReadonly"], [fn |-> "assertConfirmed", action |-> <<"merge pull request">>], [fn |-> "resolveWorkspace"], [fn |-> "assertRepoAllowed"]>>,
            "post",
            RepoPath \o <<"/pullrequests/", "1", "/merge">>,
            Undefined)

bb_update_pull_request ==
    Handler("bb_update_pull_request", RepoArgs,
            <<[fn |-> "assertNotReadonly"], [fn |-> "resolveWorkspace"], [fn |-> "assertRepoAllowed"]>>,
            "put",
            RepoPath \o <<"/pullrequests/", "1">>,
            Undefined)

bb_decline_pull_request ==
    Handler("bb_decline_pull_request", ConfirmRepoArgs,
            <<[fn |-> "assertNotReadonly"], [fn |-> "assertConfirmed", action |-> <<"decline pull request">>], [fn |-> "resolveWorkspace"], [fn |-> "assertRepoAllowed"]>>,
            "post",
            RepoPath \o <<"/pullrequests/", "1", "/decline">>,
            Undefined)

bb_list_issues_NoRepoCheck ==
    Handler("bb_list_issues", RepoArgs,
            <<[fn |-> "resolveWorkspace"]>>,
            "get",
            RepoPath \o <<"/issues">>,
            Def(<<Param(<<"q">>, Undefined),
                  Param(<<"p", "a", "g", "e">>, Undefined),
                  Param(<<"p", "a", "g", "e", "l", "e", "n">>, Undefined)>>))

bb_list_issues ==
    Handler("bb_list_issues", RepoArgs,
            <<[fn |-> "resolveWorkspace"], [fn |-> "assertRepoAllowed"]>>,
            "get",
            RepoPath \o <<"/issues">>,
            Def(<<Param(<<"q">>, Undefined),
                  Param(<<"p", "a", "g", "e">>, Undefined),
                  Param(<<"p", "a", "g", "e", "l", "e", "n">>, Undefined)>>))

bb_get_issue ==
    Handler("bb_get_issue", RepoArgs,
            <<[fn |-> "resolveWorkspace"], [fn |-> "assertRepoAllowed"]>>,
            "get",
            RepoPath \o <<"/issues/", "1">>,
            Undefined)

bb_create_issue ==
    Handler("bb_create_issue", RepoArgs,
            <<[fn |-> "assertNotReadonly"], [fn |-> "resolveWorkspace"], [fn |-> "assertRepoAllowed"]>>,
            "post",
            RepoPath \o <<"/issues">>,
            Undefined)

bb_comment_issue ==
    Handler("bb_comment_issue", RepoArgs,
            <<[fn |-> "assertNotReadonly"], [fn |-> "resolveWorkspace"], [fn |-> "assertRepoAllowed"]>>,
            "post",
            RepoPath \o <<"/issues/", "1", "/comments">>,
            Undefined)

bb_list_pipelines ==
    Handler("bb_list_pipelines", RepoArgs,
            <<[fn |-> "resolveWorkspace"], [fn |-> "assertRepoAllowed"]>>,
            "get",
            RepoPath \o <<"/pipelines/">>,
            Def(<<Param(<<"p", "a", "g", "e">>, Undefined),
                  Param(<<"p", "a", "g", "e", "l", "e", "n">>, Undefined),
                  Param(<<"s", "o", "r", "t">>, Def(Str(<<"-", "c", "r", "e", "a", "t", "e", "d", "_", "o", "n">>)))>>))

bb_get_pipeline ==
    Handler("bb_get_pipeline", RepoArgs,
            <<[fn |-> "resolveWorkspace"], [fn |-> "assertRepoAllowed"]>>,
            "get",
            RepoPath \o <<"/pipelines/", "{uuid}">>,
            Undefined)

bb_trigger_pipeline ==
    Handler("bb_trigger_pipeline", RepoArgs,
            <<[fn |-> "assertNotReadonly"], [fn |-> "resolveWorkspace"], [fn |-> "assertRepoAllowed"]>>,
            "post",
            RepoPath \o <<"/pipelines/">>,
            Undefined)

\* the caller has its result; the frames of the invocation are gone and the
\* next invocation finds the process as it was
Returns ==
    /\ call.pc = "done"
    /\ call' = Idle
    /\ req' = NoRequest
    /\ pag' = NoPagination
    /\ sent' = <<>>
    /\ fetched' = <<>>
    /\ UNCHANGED <<config, gw, inflight>>

\* the pages the server holds for the handlers
HandlerResponses == JsonResponses({<<>>, <<1>>}) \cup ErrorResponses

Init == config \in Configs /\ InitRest

Next ==
    \/ bb_whoami
    \/ bb_list_workspaces
    \/ bb_list_repositories
    \/ bb_get_repository
    \/ bb_list_branches
    \/ bb_list_commits
    \/ bb_get_file
    \/ bb_create_commit_files
    \/ bb_create_branch
    \/ bb_delete_branch
    \/ bb_list_directory
    \/ bb_search_code
    \/ bb_list_pull_requests
    \/ bb_get_pull_request
    \/ bb_create_pull_request
    \/ bb_get_pull_request_diff
    \/ bb_get_pull_request_diffstat
    \/ bb_list_pull_request_activity
    \/ bb_add_pull_request_comment
    \/ bb_approve_pull_request
    \/ bb_request_changes_pull_request
    \/ bb_merge_pull_request
    \/ bb_update_pull_request
    \/ bb_decline_pull_request
    \/ bb_list_issues
    \/ bb_get_issue
    \/ bb_create_issue
    \/ bb_comment_issue
    \/ bb_list_pipelines
    \/ bb_get_pipeline
    \/ bb_trigger_pipeline
    \/ FetchResolves(HandlerResponses)
    \/ BodyResolves
    \/ FetchRejects
    \/ BodyRejects
    \/ TimerFires
    \/ Returns

Spec == Init /\ [][Next]_vars

----------------------------------------------------------------------------
(* Direct calls of the client, as the client tests make them *)

\* the largest maxPages argument of a direct call
MaxPagesArg == 3

ItemsPath == <<"/", "items">>

\* the base URL of the client tests
BaseUrl == <<"https://", "api.bitbucket.org", "/", "2.0">>

\* the endpoint whose every page links to itself
InfinitePath == <<"/", "infinite">>

CallPaginateAll ==
    /\ call.pc = "idle"
    /\ \E maxPages \in {Undefined} \cup {Def(n) : n \in 0..MaxPagesArg},
          params \in {Undefined,
                     Def(<<[key |-> <<"r", "o", "l", "e">>,
                            value |-> Def(Str(<<"o", "w", "n", "e", "r">>))]>>)},
          path \in {ItemsPath, InfinitePath} :
          Start([NewCall("paginateAll",
                         [maxPages |-> maxPages, path |-> path, params |-> params])
                     EXCEPT !.handler = FALSE],
                "paginateAll", path, params, maxPages)
    /\ UNCHANGED <<config, gw, inflight>>

\* the self-linking endpoint answers: one item, and next is the URL of the
\* endpoint itself, however many pages were already served
InfiniteResolves ==
    /\ call.pc = "await"
    /\ req.phase = "fetch"
    /\ Contains(req.url, InfinitePath)
    /\ req' = [req EXCEPT
                  !.phase = "body",
                  !.response = [status |-> 200,
                                contentType |-> Def(<<"application/json">>),
                                body |-> Envelope(<<1>>, Def(BaseUrl \o InfinitePath))]]
    /\ UNCHANGED <<config, gw, call, pag, sent, fetched, inflight>>

\* an absolute URL on another host
OtherHostUrl == <<"https://", "other.example.com", "/", "api", "/", "data">>

\* the paths of the direct calls of the verb wrappers: with and without a
\* leading slash, absolute URLs of both schemes, and a relative path whose
\* first characters are "http"
VerbPaths ==
    {<<"/", "not-found">>, <<"user">>, OtherHostUrl,
     <<"http://", "localhost", "/", "data">>,
     <<"h", "t", "t", "p", "b", "i", "n", "/", "get">>}

\* the query parameters of the direct calls of get and getRaw: none, an empty
\* object, {a: "1", b: undefined}, {b: undefined}, {page: 2, pagelen: 10},
\* {q: "a b&c", b: undefined, flag: true}, {q: ""}
VerbParams ==
    {Undefined,
     Def(<<>>),
     Def(<<Param(<<"a">>, Def(Str(<<"1">>))), Param(<<"b">>, Undefined)>>),
     Def(<<Param(<<"b">>, Undefined)>>),
     Def(<<Param(<<"p", "a", "g", "e">>, Def(Num(2))),
           Param(<<"p", "a", "g", "e", "l", "e", "n">>, Def(Num(10)))>>),
     Def(<<Param(<<"q">>, Def(Str(<<"a", " ", "b", "&", "c">>))),
           Param(<<"b">>, Undefined),
           Param(<<"f", "l", "a", "g">>, Def(Bool(TRUE)))>>),
     Def(<<Param(<<"q">>, Def(Str(<<>>)))>>)}

\* the bodies of the direct calls of post and put: none, a plain object, an
\* object whose property self is the object
Bodies == {Undefined, Def([circular |-> FALSE]), Def([circular |-> TRUE])}

\* JSON.stringify(options.body)
JsonStringify(body) ==
    IF body.circular
    THEN Throw(TypeError(<<"Converting circular structure to JSON",
                           "\n    --> starting at object with constructor 'Object'",
                           "\n    --- property 'self' closes the circle">>))
    ELSE Return(<<"{json}">>)

DirectCall(op, path, params, body) ==
    [NewCall(op, [path |-> path, params |-> params, body |-> body])
        EXCEPT !.handler = FALSE]

\* a verb wrapper calls request(): the payload is built before the try block,
\* so a body that cannot be serialized rejects the call before any fetch
StartRequest(c, op, path, params, body) ==
    LET payload == IF body.def THEN JsonStringify(body.val) ELSE Return(Undefined)
    IN  IF payload.threw
        THEN /\ call' = [c EXCEPT !.pc = "done", !.out = Throw(payload.error),
                                  !.result = NoResult]
             /\ req' = NoRequest
             /\ pag' = NoPagination
             /\ sent' = <<>>
             /\ fetched' = <<>>
        ELSE Start(c, op, path, params, Undefined)

CallGet ==
    /\ call.pc = "idle"
    /\ \E path \in VerbPaths, params \in VerbParams :
          StartRequest(DirectCall("get", path, params, Undefined),
                       "get", path, params, Undefined)
    /\ UNCHANGED <<config, gw, inflight>>

CallGetRaw ==
    /\ call.pc = "idle"
    /\ \E path \in VerbPaths, params \in VerbParams :
          StartRequest(DirectCall("getRaw", path, params, Undefined),
                       "getRaw", path, params, Undefined)
    /\ UNCHANGED <<config, gw, inflight>>

CallPost ==
    /\ call.pc = "idle"
    /\ \E path \in VerbPaths, body \in Bodies :
          StartRequest(DirectCall("post", path, Undefined, body),
                       "post", path, Undefined, body)
    /\ UNCHANGED <<config, gw, inflight>>

CallPut ==
    /\ call.pc = "idle"
    /\ \E path \in VerbPaths, body \in Bodies :
          StartRequest(DirectCall("put", path, Undefined, body),
                       "put", path, Undefined, body)
    /\ UNCHANGED <<config, gw, inflight>>

CallDel ==
    /\ call.pc = "idle"
    /\ \E path \in VerbPaths :
          StartRequest(DirectCall("del", path, Undefined, Undefined),
                       "del", path, Undefined, Undefined)
    /\ UNCHANGED <<config, gw, inflight>>

CallPostFormData ==
    /\ call.pc = "idle"
    /\ \E path \in VerbPaths :
          StartRequest(DirectCall("postFormData", path, Undefined, Undefined),
                       "postFormData", path, Undefined, Undefined)
    /\ UNCHANGED <<config, gw, inflight>>

\* "x".repeat(n)
Xs(n) == [i \in 1..n |-> "x"]

\* the length of the long error body of the tests
LongBodyLen == 3000

\* non-2xx responses with bodies around the truncation limit, a JSON error
\* body, and a status just above the 2xx range
ClientErrorResponses ==
    {[status |-> 400, contentType |-> Undefined, body |-> Text(Xs(n))] :
        n \in {0, TruncateAt, TruncateAt + 1, LongBodyLen}}
    \cup {[status |-> 404, contentType |-> Def(<<"application/json">>),
           body |-> [type |-> "object"]],
          [status |-> 304, contentType |-> Undefined, body |-> Text(<<>>)]}

\* successful responses that are no PaginatedResponse: text, a JSON object, a
\* body that is announced as JSON and is none, and an empty 204 without a
\* content type
OtherResponses ==
    {[status |-> 200, contentType |-> Def(<<"text/plain">>), body |-> Text(<<"o", "k">>)],
     [status |-> 200, contentType |-> Def(<<"application/json">>), body |-> [type |-> "object"]],
     [status |-> 200, contentType |-> Def(<<"application/json">>),
      body |-> Text(<<"<", "h", "t", "m", "l", ">">>)],
     [status |-> 204, contentType |-> Undefined, body |-> Text(<<>>)]}

\* a page whose next link leaves the host of the API
OtherHostResponses ==
    {[status |-> 200, contentType |-> Def(<<"application/json">>),
      body |-> Envelope(<<1, 2>>, Def(OtherHostUrl))]}

ClientResponses ==
    JsonResponses(PageValues) \cup ErrorResponses \cup ClientErrorResponses
        \cup OtherResponses

ClientConfig(email, apiToken, baseUrl) ==
    [MakeConfig(FALSE, Def(ws1), Undefined, Undefined) EXCEPT
        !.email = email, !.apiToken = apiToken, !.baseUrl = baseUrl]

\* the configuration of the client tests
TestEmail == <<"t", "e", "s", "t", "@", "e", "x", "a", "m", "p", "l", "e", ".", "c", "o", "m">>

TestToken == <<"t", "e", "s", "t", "-", "t", "o", "k", "e", "n">>

\* the test configuration, base URLs with trailing slashes, and credentials
\* whose base64 form ends with no, one and two padding characters
ClientConfigs ==
    {ClientConfig(TestEmail, TestToken, b) :
        b \in {BaseUrl, BaseUrl \o <<"/">>, BaseUrl \o <<"/", "/">>}}
    \cup {ClientConfig(<<"a", "@", "b">>, t, BaseUrl) :
            t \in {<<"t">>, <<"t", "k">>, <<"t", "k", "n">>}}


InitClient == config = ClientConfig(TestEmail, TestToken, BaseUrl) /\ InitRest

NextClient ==
    \/ CallPaginateAll
    \/ CallGet
    \/ CallGetRaw
    \/ CallPost
    \/ CallPut
    \/ CallDel
    \/ CallPostFormData
    \/ FetchResolves(ClientResponses)
    \/ InfiniteResolves
    \/ BodyResolves
    \/ FetchRejects
    \/ BodyRejects
    \/ TimerFires
    \/ Returns

SpecClient == InitClient /\ [][NextClient]_vars

\* the same system with a timer that does fire: setTimeout runs its callback
\* once the delay has passed, unless clearTimeout came first
SpecClientFair == SpecClient /\ WF_vars(TimerFires)

----------------------------------------------------------------------------
(* The requests the client sends, over several configurations *)

\* what the server answers here: a last page, a page with a next link on the
\* same host, a page with a next link on another host, an error
RequestResponses ==
    JsonResponses({<<1>>}) \cup OtherHostResponses
        \cup {r \in ErrorResponses : r.status = 404}

InitRequest == config \in ClientConfigs /\ InitRest

NextRequest ==
    \/ CallPaginateAll
    \/ CallGet
    \/ CallGetRaw
    \/ CallPost
    \/ CallPut
    \/ CallDel
    \/ CallPostFormData
    \/ FetchResolves(RequestResponses)
    \/ BodyResolves
    \/ FetchRejects
    \/ BodyRejects
    \/ TimerFires
    \/ Returns

SpecRequest == InitRequest /\ [][NextRequest]_vars

----------------------------------------------------------------------------
(* Several callers on one client *)

\* what the server answers the concurrent callers
ConcurrentResponses ==
    {r \in OtherResponses : r.status = 200} \cup {r \in ErrorResponses : r.status = 404}

AbortedBy_Shared(i) == Callers

\* `controller` and `timeoutId` are locals of one request() call: the callback
\* of the timer of call i aborts the fetch of call i
AbortedBy(i) == {i}

\* request() leaves through finally: the frame keeps its outcome
SettledFrame(r, out, timer) ==
    [r EXCEPT !.phase = "settled", !.timer = timer, !.out = out]

\* caller i calls get or getRaw while other calls may be in flight
ConcurrentCall(i) ==
    /\ inflight[i].phase = "none"
    /\ \E op \in {"get", "getRaw"} :
          inflight' = [inflight EXCEPT
                          ![i] = NewRequest(MethodOf(op), <<"/", "user">>, Undefined, IsRaw(op))]
    /\ UNCHANGED <<config, gw, call, req, pag, sent, fetched>>

\* the fetch of caller i resolves with a response
ConcurrentFetchResolves(i) ==
    /\ inflight[i].phase = "fetch"
    /\ \E response \in ConcurrentResponses :
          inflight' = [inflight EXCEPT ![i].phase = "body", ![i].response = response]
    /\ UNCHANGED <<config, gw, call, req, pag, sent, fetched>>

\* the body of caller i has been read
ConcurrentBodyResolves(i) ==
    /\ inflight[i].phase = "body"
    /\ inflight' = [inflight EXCEPT
                       ![i] = SettledFrame(inflight[i], Outcome(inflight[i]), "cleared")]
    /\ UNCHANGED <<config, gw, call, req, pag, sent, fetched>>

\* the fetch or the body read of caller i rejects
ConcurrentRejects(i) ==
    /\ inflight[i].phase \in {"fetch", "body"}
    /\ inflight' = [inflight EXCEPT
                       ![i] = SettledFrame(inflight[i],
                                           Throw(Catch(IF inflight[i].phase = "fetch"
                                                       THEN FetchFailed ELSE BodyFailed)),
                                           "cleared")]
    /\ UNCHANGED <<config, gw, call, req, pag, sent, fetched>>

\* the timer of caller i fires: its callback aborts the signal of its
\* controller, and every pending fetch that holds that signal rejects
ConcurrentTimerFires(i) ==
    /\ inflight[i].phase \in {"fetch", "body"}
    /\ inflight[i].timer = "armed"
    /\ inflight' =
          [j \in Callers |->
              IF j \in AbortedBy(i) /\ inflight[j].phase \in {"fetch", "body"}
              THEN SettledFrame(inflight[j], Throw(Catch(AbortError)),
                                IF j = i THEN "fired" ELSE "cleared")
              ELSE inflight[j]]
    /\ UNCHANGED <<config, gw, call, req, pag, sent, fetched>>

\* caller i has consumed the settled promise
ConcurrentReturns(i) ==
    /\ inflight[i].phase = "settled"
    /\ inflight' = [inflight EXCEPT ![i] = NoRequest]
    /\ UNCHANGED <<config, gw, call, req, pag, sent, fetched>>

InitConcurrent == config = ClientConfig(TestEmail, TestToken, BaseUrl) /\ InitRest

NextConcurrent ==
    \E i \in Callers :
        \/ ConcurrentCall(i)
        \/ ConcurrentFetchResolves(i)
        \/ ConcurrentBodyResolves(i)
        \/ ConcurrentRejects(i)
        \/ ConcurrentTimerFires(i)
        \/ ConcurrentReturns(i)

SpecConcurrent == InitConcurrent /\ [][NextConcurrent]_vars

----------------------------------------------------------------------------
(* Claims about the Access Gateway, checked under SpecGateway *)

\* C4: assertWorkspaceAllowed never fails when allowedWorkspaces is unset; when
\* the list is present it returns normally exactly when the lower-cased
\* workspace is in it ('WS1' passes against {'ws1'}, 'ws2' fails), and the
\* failure is a Safety Violation whose message lists the allowed values.
C4_WorkspaceAllowed ==
    gw.fn = "assertWorkspaceAllowed" =>
        /\ ~config.allowedWorkspaces.def => ~gw.out.threw
        /\ config.allowedWorkspaces.def =>
              /\ ~gw.out.threw <=>
                    \E i \in 1..Len(config.allowedWorkspaces.val) :
                        config.allowedWorkspaces.val[i] = ToLowerCase(gw.workspace)
              /\ gw.out.threw =>
                    /\ IsSafetyViolation(gw.out)
                    /\ \A i \in 1..Len(config.allowedWorkspaces.val) :
                          Contains(gw.out.error.message, config.allowedWorkspaces.val[i])
        /\ (config.allowedWorkspaces = Def(<<ws1>>) /\ gw.workspace = WS1) => ~gw.out.threw
        /\ (config.allowedWorkspaces = Def(<<ws1>>) /\ gw.workspace = ws2) => gw.out.threw

C4_Witness ==
    /\ gw.fn = "assertWorkspaceAllowed"
    /\ config.allowedWorkspaces = Def(<<ws1>>)
    /\ gw.workspace = WS1
    /\ ~gw.out.threw

\* C5: whenever assertRepoAllowed returns normally, assertWorkspaceAllowed
\* returns normally for the same configuration and workspace; with
\* allowedWorkspaces = {'ws1'} and allowedRepos = {'ws1/repo'}, repo 'repo'
\* under workspace 'ws2' fails with the workspace check's error.
C5_RepoCheckKeepsWorkspaceCheck ==
    gw.fn = "assertRepoAllowed" =>
        /\ ~gw.out.threw =>
              (config.allowedWorkspaces.def =>
                  \E i \in 1..Len(config.allowedWorkspaces.val) :
                      config.allowedWorkspaces.val[i] = ToLowerCase(gw.workspace))
        /\ (/\ config.allowedWorkspaces = Def(<<ws1>>)
            /\ config.allowedRepos = Def(<<ws1_repo>>)
            /\ gw.workspace = ws2
            /\ gw.repoSlug = repo) =>
              /\ IsSafetyViolation(gw.out)
              /\ SubSeq(gw.out.error.message, 1, 1) = <<"Workspace \"">>

C5_Witness ==
    /\ gw.fn = "assertRepoAllowed"
    /\ config.allowedWorkspaces = Def(<<ws1>>)
    /\ config.allowedRepos = Def(<<ws1_repo>>)
    /\ gw.workspace = ws2
    /\ gw.repoSlug = repo
    /\ gw.out.threw

\* C6: once the workspace check passed, assertRepoAllowed returns normally
\* when allowedRepos is unset; when it is present it returns normally exactly
\* when lower(workspace/repoSlug) or lower(repoSlug) is in the list, and it
\* fails otherwise with a Safety Violation listing the allowed values.
C6_RepoAllowed ==
    (gw.fn = "assertRepoAllowed" /\ ~assertWorkspaceAllowed(config, gw.workspace).threw) =>
        /\ ~config.allowedRepos.def => ~gw.out.threw
        /\ config.allowedRepos.def =>
              /\ ~gw.out.threw <=>
                    \E i \in 1..Len(config.allowedRepos.val) :
                        \/ config.allowedRepos.val[i]
                             = ToLowerCase(gw.workspace) \o <<"/">> \o ToLowerCase(gw.repoSlug)
                        \/ config.allowedRepos.val[i] = ToLowerCase(gw.repoSlug)
              /\ gw.out.threw =>
                    /\ IsSafetyViolation(gw.out)
                    /\ SubSeq(gw.out.error.message, 1, 1) = <<"Repository \"">>
                    /\ \A i \in 1..Len(config.allowedRepos.val) :
                          Contains(gw.out.error.message, config.allowedRepos.val[i])

C6_Witness ==
    /\ gw.fn = "assertRepoAllowed"
    /\ config.allowedWorkspaces = Def(<<ws1>>)
    /\ config.allowedRepos = Def(<<repo>>)
    /\ gw.workspace = WS1
    /\ gw.repoSlug = Repo
    /\ ~gw.out.threw

\* C7: assertConfirmed returns normally when confirm is true and fails with a
\* Safety Violation when it is false or missing; the failure message contains
\* the action label.
C7_Confirmed ==
    gw.fn = "assertConfirmed" =>
        /\ gw.confirm = Def(TRUE) => ~gw.out.threw
        /\ gw.confirm # Def(TRUE) =>
              /\ IsSafetyViolation(gw.out)
              /\ Contains(gw.out.error.message, gw.action)

C7_Witness ==
    /\ gw.fn = "assertConfirmed"
    /\ gw.confirm = Undefined
    /\ gw.action = <<"delete branch">>
    /\ gw.out.threw

\* C8 as stated: resolveWorkspace returns the explicit workspace whenever one
\* is provided, whatever the configured default is.
C8_Original ==
    (gw.fn = "resolveWorkspace" /\ gw.workspace.def) =>
        gw.out = Return(gw.workspace.val)

\* C8 as amended: resolveWorkspace returns the explicit workspace whenever a
\* non-empty one is provided, whatever the default is; an empty string counts
\* as not provided; with none provided it returns the configured default if
\* set, and otherwise fails with a Safety Violation.
C8_ResolveWorkspace ==
    gw.fn = "resolveWorkspace" =>
        LET provided == gw.workspace.def /\ gw.workspace.val # EmptyString
        IN  /\ provided => gw.out = Return(gw.workspace.val)
            /\ (~provided /\ config.defaultWorkspace.def) =>
                  gw.out = Return(config.defaultWorkspace.val)
            /\ (~provided /\ ~config.defaultWorkspace.def) =>
                  /\ IsSafetyViolation(gw.out)
                  /\ gw.out.error.message = NoWorkspaceMessage

C8_Witness ==
    /\ gw.fn = "resolveWorkspace"
    /\ gw.workspace = Def(ws2)
    /\ config.defaultWorkspace = Def(ws1)
    /\ gw.out = Return(ws2)

----------------------------------------------------------------------------
(* Claims about the tool handlers, checked under Spec *)

WriteMethods == {"POST", "PUT", "DELETE"}

DestructiveTools ==
    {"bb_merge_pull_request", "bb_decline_pull_request", "bb_delete_branch"}

WriteTools ==
    {"bb_create_pull_request", "bb_update_pull_request", "bb_add_pull_request_comment",
     "bb_approve_pull_request", "bb_request_changes_pull_request",
     "bb_create_commit_files", "bb_create_branch", "bb_create_issue",
     "bb_comment_issue", "bb_trigger_pipeline"} \cup DestructiveTools

\* the tools that take neither a workspace nor a repository
UnscopedTools == {"bb_whoami", "bb_list_workspaces"}

Invoked == call.pc # "idle" /\ call.handler

Failed(message) ==
    /\ call.pc = "done"
    /\ call.result.isError
    /\ call.result.text = <<"Error: ">> \o message

FailedSaying(part) ==
    /\ call.pc = "done"
    /\ call.result.isError
    /\ Contains(call.result.text, part)

InList(list, x) == \E i \in 1..Len(list) : list[i] = x

\* the target of the invocation is within the allow-lists: the workspace w and,
\* when the invocation names one, the repository
TargetAllowed(w, args) ==
    /\ config.allowedWorkspaces.def => InList(config.allowedWorkspaces.val, ToLowerCase(w))
    /\ (config.allowedRepos.def /\ args.repo_slug.def /\ args.repo_slug.val # EmptyString) =>
          \/ InList(config.allowedRepos.val,
                    ToLowerCase(w) \o <<"/">> \o ToLowerCase(args.repo_slug.val))
          \/ InList(config.allowedRepos.val, ToLowerCase(args.repo_slug.val))

\* C1: in a read-only process no POST, PUT or DELETE request is ever sent, and
\* every invocation of a write tool sends no request at all and ends with the
\* failure result that carries the read-only message.
C1_ReadonlyBlocksWrites ==
    config.readonly =>
        /\ \A i \in 1..Len(sent) : sent[i].method \notin WriteMethods
        /\ (Invoked /\ call.tool \in WriteTools) =>
              /\ sent = <<>>
              /\ Failed(ReadonlyMessage)

C1_Witness ==
    /\ config.readonly
    /\ Invoked
    /\ call.tool = "bb_trigger_pipeline"
    /\ call.args.workspace = Def(WS1)
    /\ call.args.repo_slug = Def(Repo)
    /\ call.pc = "done"
    /\ call.result.isError
    /\ sent = <<>>

\* C2: an invocation of merge pull request, decline pull request or delete
\* branch whose confirm argument is false or missing sends no request and ends
\* with a failure result, whatever the configuration and the other arguments.
C2_DestructiveNeedsConfirm ==
    (Invoked /\ call.tool \in DestructiveTools /\ call.args.confirm # Def(TRUE)) =>
        /\ sent = <<>>
        /\ call.pc = "done"
        /\ call.result.isError

C2_Witness ==
    /\ Invoked
    /\ ~config.readonly
    /\ ~config.allowedWorkspaces.def
    /\ ~config.allowedRepos.def
    /\ call.tool = "bb_delete_branch"
    /\ call.args.confirm = Undefined
    /\ call.args.workspace = Def(WS1)
    /\ call.pc = "done"
    /\ call.result.isError
    /\ sent = <<>>

\* C3: a handler that takes a workspace or a repository sends a request only
\* once it has resolved the workspace and the target is within the
\* allow-lists; when it has resolved the workspace and the target is not
\* within them, it sends nothing and its result is the failure saying that
\* the target is not in the allowed list.
C3_AllowListBeforeRequest ==
    (Invoked /\ call.tool \notin UnscopedTools) =>
        /\ sent # <<>> => (call.ws.def /\ TargetAllowed(call.ws.val, call.args))
        /\ (call.ws.def /\ ~TargetAllowed(call.ws.val, call.args)) =>
              /\ sent = <<>>
              /\ FailedSaying(NotInAllowedList)

C3_Witness ==
    /\ Invoked
    /\ call.tool = "bb_list_issues"
    /\ config.allowedWorkspaces = Def(<<ws1>>)
    /\ call.ws = Def(ws2)
    /\ call.pc = "done"
    /\ call.result.isError
    /\ sent = <<>>

\* the label a destructive tool passes to assertConfirmed
ActionOf(tool) ==
    CASE tool = "bb_merge_pull_request" -> <<"merge pull request">>
      [] tool = "bb_decline_pull_request" -> <<"decline pull request">>
      [] tool = "bb_delete_branch" -> <<"delete branch">>

\* the workspace argument or the default resolves to a workspace
Resolvable(args) ==
    \/ args.workspace.def /\ args.workspace.val # EmptyString
    \/ config.defaultWorkspace.def

Resolved(args) ==
    IF args.workspace.def /\ args.workspace.val # EmptyString
    THEN args.workspace.val ELSE config.defaultWorkspace.val

\* C9: a write or destructive handler reports the failure of the earliest
\* failing check in the order read-only, confirmation, workspace resolution,
\* allow-list: a read-only configuration always yields the read-only error,
\* whatever else would fail.
C9_CheckOrder ==
    (Invoked /\ call.tool \in WriteTools) =>
        LET unconfirmed == call.tool \in DestructiveTools /\ call.args.confirm # Def(TRUE)
        IN  /\ config.readonly => Failed(ReadonlyMessage)
            /\ (~config.readonly /\ unconfirmed) =>
                  Failed(ConfirmationMessage(ActionOf(call.tool)))
            /\ (~config.readonly /\ ~unconfirmed /\ ~Resolvable(call.args)) =>
                  Failed(NoWorkspaceMessage)
            /\ (/\ ~config.readonly
                /\ ~unconfirmed
                /\ Resolvable(call.args)
                /\ ~TargetAllowed(Resolved(call.args), call.args)) =>
                  FailedSaying(NotInAllowedList)

C9_Witness ==
    /\ Invoked
    /\ config.readonly
    /\ config.allowedRepos = Def(<<repo>>)
    /\ call.tool = "bb_delete_branch"
    /\ call.args.confirm = Undefined
    /\ call.args.repo_slug = Def(lib)
    /\ ~Resolvable(call.args)
    /\ Failed(ReadonlyMessage)

----------------------------------------------------------------------------
(* Claims about the client, checked under SpecClient *)

RECURSIVE Flatten(_)
Flatten(pages) == IF Len(pages) = 0 THEN <<>> ELSE Head(pages) \o Flatten(Tail(pages))

\* C10: paginateAll returns the concatenation of the item lists of the pages
\* it fetched, in fetch order and without deduplication, after one request per
\* page; two pages <<1, 2>> and <<3, 4>> give <<1, 2, 3, 4>> after 2 requests.
C10_PaginateConcatenates ==
    /\ pag.active => pag.allValues = Flatten(fetched)
    /\ (call.pc = "done" /\ call.tool = "paginateAll" /\ ~call.out.threw) =>
          /\ call.out.value = Flatten(fetched)
          /\ Len(sent) = Len(fetched)
          /\ fetched = << <<1, 2>>, <<3, 4>> >> =>
                (call.out.value = <<1, 2, 3, 4>> /\ Len(sent) = 2)

C10_Witness ==
    /\ call.pc = "done"
    /\ call.tool = "paginateAll"
    /\ ~call.out.threw
    /\ fetched = << <<1, 2>>, <<3, 4>> >>
    /\ sent[1].url # sent[2].url
    /\ sent[2].url = NextUrl
    /\ call.out.value = <<1, 2, 3, 4>>

\* the maxPages in force for a direct paginateAll call
MaxPagesOf(c) == IF c.args.maxPages.def THEN c.args.maxPages.val ELSE DefaultMaxPages

\* C11: paginateAll stops at the first page without a next URL or when the
\* number of fetched pages reaches maxPages (default 10), whichever comes
\* first: whatever the server answers it issues at most maxPages requests, a
\* successful return follows a page without next or the maxPages-th request,
\* and with maxPages = 3 against pages of one item that always link onwards
\* it returns exactly 3 items.
C11_PaginateBounded ==
    (call.pc # "idle" /\ call.tool = "paginateAll") =>
        /\ Len(sent) <= MaxPagesOf(call)
        /\ (call.pc = "done" /\ ~call.out.threw /\ Len(sent) > 0) =>
              \/ ~TruthyString(req.response.body.next)
              \/ Len(sent) = MaxPagesOf(call)
        /\ (call.pc = "done" /\ ~call.out.threw /\ Len(sent) = 0) =>
              MaxPagesOf(call) = 0
        /\ (/\ call.pc = "done" /\ ~call.out.threw
            /\ call.args.maxPages = Def(3)
            /\ Len(sent) > 0
            /\ TruthyString(req.response.body.next)
            /\ \A i \in 1..Len(fetched) : fetched[i] = <<1>>) =>
              (call.out.value = <<1, 1, 1>> /\ Len(sent) = 3)

C11_Witness ==
    /\ call.pc = "done"
    /\ call.tool = "paginateAll"
    /\ ~call.out.threw
    /\ call.args.maxPages = Def(3)
    /\ call.args.path = InfinitePath
    /\ \A i \in 1..Len(sent) : Contains(sent[i].url, InfinitePath)
    /\ req.response.body.next = Def(req.url)
    /\ Len(sent) = 3
    /\ call.out.value = <<1, 1, 1>>

\* C12: paginateAll is fail-fast with no partial results: when the request of
\* any page, first or later, fails, paginateAll fails with that request's
\* error unchanged, the failed request is the last one sent, and its outcome
\* carries no items.
C12_PaginateFailFast ==
    (call.pc # "idle" /\ call.tool = "paginateAll"
        /\ req.phase = "settled" /\ req.out.threw) =>
        /\ call.pc = "done"
        /\ call.out = Throw(req.out.error)
        /\ Len(sent) = Len(fetched) + 1
        /\ req.url = sent[Len(sent)].url

C12_Witness ==
    /\ call.pc = "done"
    /\ call.tool = "paginateAll"
    /\ req.phase = "settled"
    /\ req.out.threw
    /\ req.out.error.statusCode = 500
    /\ call.out.threw
    /\ call.out.error.statusCode = 500
    /\ fetched = << <<1, 2>>, <<3, 4>> >>
    /\ Len(sent) = 3

\* the operations of the client
ClientOps == {"get", "getRaw", "post", "put", "del", "postFormData", "paginateAll"}

\* request() has settled after a response arrived, and neither the timer nor
\* a failure of the body read ended it
Answered ==
    /\ call.pc = "done"
    /\ call.tool \in ClientOps
    /\ req.phase = "settled"
    /\ req.response # Undefined
    /\ req.timer = "cleared"
    /\ req.out # Throw(Catch(BodyFailed))

\* C13: on any non-2xx response whose body is read, the operation raises an
\* API Error whose status code is the response's HTTP status and whose
\* message is "Bitbucket " followed by "API error {status}: {body}", the body
\* being the response text or its truncation; HTTP 404 gives status code 404
\* and a message containing "404".
C13_NonOkRaisesApiError ==
    (Answered /\ (req.response.status < 200 \/ req.response.status > 299)) =>
        LET e == call.out.error
            text == IF req.response.body.type = "text" THEN req.response.body.text
                    ELSE <<"{json}">>
            prefix == <<"B", "i", "t", "b", "u", "c", "k", "e", "t", " ">>
                          \o <<"A", "P", "I", " ", "e", "r", "r", "o", "r", " ">>
                          \o NumberToString(req.response.status) \o <<":", " ">>
            body == SubSeq(e.message, Len(prefix) + 1, Len(e.message))
        IN  /\ call.out.threw
            /\ e.name = "BitbucketApiError"
            /\ e.statusCode = req.response.status
            /\ SubSeq(e.message, 1, Len(prefix)) = prefix
            /\ \/ body = text
               \/ /\ Len(body) - 3 < Len(text)
                  /\ SubSeq(text, 1, Len(body) - 3) \o <<".", ".", ".">> = body
            /\ req.response.status = 404 => Contains(e.message, <<"4", "0", "4">>)

C13_Witness ==
    /\ Answered
    /\ call.tool = "get"
    /\ req.response.status = 404
    /\ call.out.threw
    /\ call.out.error.statusCode = 404
    /\ call.out.error.message =
          <<"B", "i", "t", "b", "u", "c", "k", "e", "t", " ",
            "A", "P", "I", " ", "e", "r", "r", "o", "r", " ",
            "4", "0", "4", ":", " ", "{json}">>

\* the text of the body of a response, as response.text() gives it
ResponseText(response) ==
    IF response.body.type = "text" THEN response.body.text ELSE <<"{json}">>

\* C14: the message of every API Error raised for a non-2xx response is
\* bounded: after the prefix and the status it holds at most 2000 characters
\* of the body plus the marker "...", the marker is there only when the body
\* is longer than 2000 characters, and a body of 3000 characters gives a
\* message shorter than 2100 characters.
C14_MessageBounded ==
    (Answered /\ call.out.threw /\ ~Ok(req.response)) =>
        LET message == call.out.error.message
            text == ResponseText(req.response)
            status == NumberToString(req.response.status)
            body == SubSeq(message, 20 + Len(status) + 2 + 1, Len(message))
        IN  /\ Len(body) <= 2000 + 3
            /\ Len(message) <= 20 + Len(status) + 2 + 2000 + 3
            /\ Len(text) <= 2000 => body = text
            /\ Len(text) > 2000 =>
                  /\ SubSeq(body, 1, 2000) = SubSeq(text, 1, 2000)
                  /\ SubSeq(body, 2001, Len(body)) = <<".", ".", ".">>
            /\ Len(text) = 3000 => Len(message) < 2100

C14_Witness ==
    /\ Answered
    /\ call.out.threw
    /\ req.response.status = 400
    /\ Len(req.response.body.text) = 3000
    /\ Len(call.out.error.message) = 2028
    /\ call.out.error.message[2025] = "x"
    /\ call.out.error.message[2026] = "."

\* C15: if the timeout elapses before a request has completed, the request is
\* aborted and the operation fails with an API Error of status 408; a request
\* that is still pending has a timer that has not fired.
C15_TimeoutAborts ==
    /\ (req.phase \in {"fetch", "body"}) => req.timer = "armed"
    /\ (req.phase = "settled" /\ req.timer = "fired") =>
          /\ req.out = Throw(BitbucketApiError(408, <<"Request timed out">>))
          /\ call.pc = "done"
          /\ call.out = req.out

C15_Witness ==
    /\ call.pc = "done"
    /\ call.tool = "paginateAll"
    /\ req.phase = "settled"
    /\ req.timer = "fired"
    /\ req.response # Undefined
    /\ Len(fetched) = 1
    /\ Len(sent) = 2
    /\ call.out.threw
    /\ call.out.error.statusCode = 408

\* C16: a network failure of the HTTP call, while fetch is pending or while
\* the body is read, is raised as an API Error with status code 0; the status
\* of every API Error of the client is 0, or 408 after the timer fired, or the
\* HTTP status of the response.
C16_NetworkFailureStatus0 ==
    /\ [](/\ (req.phase = "settled" /\ req.response = Undefined
                  /\ req.timer = "cleared") =>
                (/\ req.out.threw
                 /\ req.out.error.name = "BitbucketApiError"
                 /\ req.out.error.statusCode = 0)
          /\ (req.phase = "settled" /\ req.out.threw) =>
                (/\ req.out.error.name = "BitbucketApiError"
                 /\ \/ req.out.error.statusCode = 0
                    \/ req.out.error.statusCode = 408 /\ req.timer = "fired"
                    \/ /\ req.response # Undefined
                       /\ req.out.error.statusCode = req.response.status))
    /\ [][(FetchRejects \/ BodyRejects) =>
            /\ req'.phase = "settled"
            /\ req'.out.threw
            /\ req'.out.error.name = "BitbucketApiError"
            /\ req'.out.error.statusCode = 0
            /\ call'.pc = "done"
            /\ call'.out = req'.out]_vars

C16_Witness ==
    /\ call.pc = "done"
    /\ call.tool = "post"
    /\ req.phase = "settled"
    /\ req.response = Undefined
    /\ req.timer = "cleared"
    /\ call.out.threw
    /\ call.out.error.statusCode = 0
    /\ call.out.error.message = <<"Network error: ", "fetch failed">>

\* C17: every failure of a client operation (get, getRaw, post, put, del,
\* postFormData, paginateAll) is an API Error, whatever the server returns
\* and whatever the inputs are.
C17_Original ==
    (call.pc = "done" /\ call.tool \in ClientOps /\ call.out.threw) =>
        call.out.error.name = "BitbucketApiError"

\* paginateAll got a 2xx response that is no result envelope and failed with
\* a TypeError
C17_Witness ==
    /\ call.pc = "done"
    /\ call.tool = "paginateAll"
    /\ req.phase = "settled"
    /\ ~req.out.threw
    /\ Ok(req.response)
    /\ call.out.threw
    /\ call.out.error.name = "TypeError"

\* "Basic "
Basic == <<"B", "a", "s", "i", "c", " ">>

\* C18: every HTTP call of the client, for every verb wrapper and for every
\* follow-up request of paginateAll, including requests to absolute URLs on
\* another host, carries the Authorization header "Basic " followed by the
\* base64 form of email:token.
C18_AuthOnEveryRequest ==
    \A i \in 1..Len(sent) :
        LET auth == sent[i].headers.Authorization
        IN  /\ auth = Basic \o btoa(config.email \o <<":">> \o config.apiToken)
            /\ (config.email = TestEmail /\ config.apiToken = TestToken) =>
                  auth = Basic \o
                    <<"d", "G", "V", "z", "d", "E", "B", "l", "e", "G", "F", "t",
                      "c", "G", "x", "l", "L", "m", "N", "v", "b", "T", "p", "0",
                      "Z", "X", "N", "0", "L", "X", "R", "v", "a", "2", "V", "u">>
            /\ (config.email = <<"a", "@", "b">> /\ config.apiToken = <<"t">>) =>
                  auth = Basic \o <<"Y", "U", "B", "i", "O", "n", "Q", "=">>
            /\ (config.email = <<"a", "@", "b">> /\ config.apiToken = <<"t", "k">>) =>
                  auth = Basic \o <<"Y", "U", "B", "i", "O", "n", "R", "r">>
            /\ (config.email = <<"a", "@", "b">>
                    /\ config.apiToken = <<"t", "k", "n">>) =>
                  auth = Basic \o <<"Y", "U", "B", "i", "O", "n", "R", "r",
                                    "b", "g", "=", "=">>

C18_Witness ==
    /\ call.pc = "done"
    /\ call.tool = "paginateAll"
    /\ Len(sent) = 2
    /\ sent[1].url = BaseUrl \o <<"/", "items">>
    /\ sent[2].url = OtherHostUrl
    /\ config.apiToken = <<"t", "k", "n">>
    /\ sent[2].headers.Authorization =
          Basic \o <<"Y", "U", "B", "i", "O", "n", "R", "r", "b", "g", "=", "=">>

\* the path starts with the characters "http"
StartsWithHttp(path) ==
    \/ (Len(path) > 0 /\ path[1] \in {"http://", "https://"})
    \/ (Len(path) >= 4 /\ SubSeq(path, 1, 4) = <<"h", "t", "t", "p">>)

\* the path starts with the scheme of an absolute URL
StartsWithScheme(path) == Len(path) > 0 /\ path[1] \in {"http://", "https://"}

\* the base URL without its trailing slashes, one slash, and the path without
\* its leading slash
Joined(base, path) ==
    LET k == CHOOSE k \in 0..Len(base) :
                 /\ k > 0 => base[k] # "/"
                 /\ \A i \in (k + 1)..Len(base) : base[i] = "/"
        rest == IF Len(path) > 0 /\ path[1] = "/" THEN Tail(path) ELSE path
    IN  SubSeq(base, 1, k) \o <<"/">> \o rest

\* the URL of the first request of a direct call is `target`, followed by
\* nothing or by a query string
FirstRequestGoesTo(target) ==
    /\ Len(sent[1].url) >= Len(target)
    /\ SubSeq(sent[1].url, 1, Len(target)) = target
    /\ Len(sent[1].url) > Len(target) => sent[1].url[Len(target) + 1] = "?"

\* C19 as stated: a request whose path starts with "http" is sent to exactly
\* that URL, bypassing the base URL; any other path is joined to the base URL
\* without its trailing slashes, with exactly one "/" between them.
C19_Original ==
    (call.pc # "idle" /\ call.tool \in ClientOps /\ Len(sent) > 0) =>
        IF StartsWithHttp(call.args.path)
        THEN FirstRequestGoesTo(call.args.path)
        ELSE FirstRequestGoesTo(Joined(config.baseUrl, call.args.path))

\* C19, amended: a request whose path starts with "http://" or "https://" is
\* sent to exactly that URL, bypassing the base URL; any other path, one
\* that starts with "http" included, is joined to the base URL without its
\* trailing slashes, with exactly one "/" between them.
C19_AbsoluteUrlBypassesBase ==
    (call.pc # "idle" /\ call.tool \in ClientOps /\ Len(sent) > 0) =>
        IF StartsWithScheme(call.args.path)
        THEN FirstRequestGoesTo(call.args.path)
        ELSE FirstRequestGoesTo(Joined(config.baseUrl, call.args.path))

C19_Witness ==
    /\ call.pc = "done"
    /\ call.tool = "get"
    /\ config.baseUrl = BaseUrl \o <<"/", "/">>
    /\ call.args.path = <<"h", "t", "t", "p", "b", "i", "n", "/", "get">>
    /\ sent[1].url = BaseUrl \o <<"/", "h", "t", "t", "p", "b", "i", "n", "/", "get">>

\* C20: query parameters whose value is undefined are left out of the request
\* URL, every other parameter appears exactly once as name=value with the
\* value converted to a string, and no "?" is appended when no parameter
\* remains; {a: "1", b: undefined} gives a URL that contains "a=1" and no
\* "b=" parameter.
C20_QueryParameters ==
    (call.pc # "idle" /\ call.tool \in {"get", "getRaw"} /\ Len(sent) > 0) =>
        LET url == sent[1].url
            params == IF call.args.params.def THEN call.args.params.val ELSE <<>>
            Occ(pat) == {i \in 1..Len(url) :
                            /\ i + Len(pat) - 1 <= Len(url)
                            /\ SubSeq(url, i, i + Len(pat) - 1) = pat}
            Named(key) == Occ(<<"?">> \o key \o <<"=">>) \cup Occ(<<"&">> \o key \o <<"=">>)
        IN  /\ \A i \in 1..Len(params) :
                  LET key == FormEncode(params[i].key)
                  IN  IF ~params[i].value.def THEN Named(key) = {}
                      ELSE /\ Cardinality(Named(key)) = 1
                           /\ LET v == FormEncode(JsString(params[i].value.val))
                                  from == (CHOOSE j \in Named(key) : TRUE) + Len(key) + 2
                              IN  /\ SubSeq(url, from, from + Len(v) - 1) = v
                                  /\ from + Len(v) <= Len(url) => url[from + Len(v)] = "&"
            /\ Cardinality(Occ(<<"?">>)) <= 1
            /\ (\A i \in 1..Len(params) : ~params[i].value.def) => Occ(<<"?">>) = {}
            /\ (\E i \in 1..Len(params) : params[i].value.def) =>
                  (Occ(<<"?">>) # {} /\ url[Len(url)] \notin {"?", "&"})
            /\ call.args.params =
                    Def(<<Param(<<"a">>, Def(Str(<<"1">>))), Param(<<"b">>, Undefined)>>) =>
                  (Contains(url, <<"a", "=", "1">>) /\ ~Contains(url, <<"b", "=">>))
            /\ (params # <<>> /\ params[1].value = Def(Num(2))) =>
                  /\ Contains(url, <<"p", "a", "g", "e", "=", "2">>)
                  /\ Contains(url, <<"p", "a", "g", "e", "l", "e", "n", "=", "1", "0">>)
            /\ (Len(params) = 3 /\ params[3].value = Def(Bool(TRUE))) =>
                  Contains(url, <<"f", "l", "a", "g", "=", "t", "r", "u", "e">>)

C20_Witness ==
    /\ call.pc = "done"
    /\ call.tool = "get"
    /\ call.args.path = <<"user">>
    /\ call.args.params =
          Def(<<Param(<<"a">>, Def(Str(<<"1">>))), Param(<<"b">>, Undefined)>>)
    /\ config.baseUrl = BaseUrl
    /\ sent[1].url = BaseUrl \o <<"/", "user", "?", "a", "=", "1">>

\* the content type of the response names JSON
JsonContentType(response) ==
    /\ response.contentType.def
    /\ \E i \in 1..Len(response.contentType.val) :
          response.contentType.val[i] = "application/json"

\* C21: on a successful response get, post, put, del and postFormData return
\* the parsed JSON value when the content type is JSON and the body text
\* otherwise, getRaw returns the body text whatever the content type, and no
\* operation returns a value for a non-2xx response; a body announced as JSON
\* that does not parse gives no value either.
C21_ReturnValue ==
    (Answered /\ call.tool # "paginateAll") =>
        LET response == req.response
            text == [type |-> "text", text |-> ResponseText(response)]
        IN  /\ (response.status < 200 \/ response.status > 299) => call.out.threw
            /\ (response.status >= 200 /\ response.status <= 299) =>
                  IF call.tool = "getRaw" THEN call.out = Return(text)
                  ELSE IF ~JsonContentType(response) THEN call.out = Return(text)
                  ELSE IF response.body.type # "text" THEN call.out = Return(response.body)
                  ELSE call.out.threw

C21_Witness ==
    /\ Answered
    /\ call.tool = "getRaw"
    /\ req.response.status = 200
    /\ JsonContentType(req.response)
    /\ req.response.body.type = "envelope"
    /\ call.out = Return([type |-> "text", text |-> <<"{json}">>])

\* C22: every tool handler invocation settles with a result and never
\* rejects: a Safety Violation or API Error raised during it becomes the
\* failure result (isError true, text "Error: " followed by the error's
\* message), and a run without error gives a result without the error flag.
C22_HandlerAlwaysReturnsResult ==
    (call.pc = "done" /\ call.handler) =>
        /\ call.result # Undefined
        /\ call.out.threw =>
              /\ call.out.error.name \in {"SafetyError", "BitbucketApiError", "TypeError"}
              /\ call.result.isError
              /\ call.result.text = <<"Error: ">> \o call.out.error.message
        /\ ~call.out.threw =>
              /\ ~call.result.isError
              /\ call.result.text = call.out.value

C22_Witness ==
    /\ call.pc = "done"
    /\ call.handler
    /\ call.tool = "bb_list_workspaces"
    /\ call.out.threw
    /\ call.out.error.name = "BitbucketApiError"
    /\ call.out.error.statusCode = 404
    /\ Len(sent) = 2
    /\ call.result.isError
    /\ call.result.text[1] = "Error: "
    /\ call.result.text[2] = "B"

----------------------------------------------------------------------------
(* Claims about concurrent callers, checked under SpecConcurrent *)

\* the outcomes a request can have by its own response and its own timer
AloneOutcomes(r) ==
    IF r.timer = "fired"
    THEN {Throw(TimeoutError)}
    ELSE IF r.response = Undefined THEN {Throw(NetworkError)}
    ELSE {Throw(Catch(BodyFailed)), Outcome(r)}

\* C23: concurrent requests on one client do not interfere: the timer of one
\* request settles only that request, every step leaves the frames of the
\* other requests as they were, and a settled request has an outcome it can
\* have running alone: status 408 only when its own timer fired.
C23_ConcurrentRequestsDoNotInterfere ==
    /\ [](\A i \in Callers :
            inflight[i].phase = "settled" => inflight[i].out \in AloneOutcomes(inflight[i]))
    /\ [][\A i, j \in Callers :
            (i # j /\ inflight'[i] # inflight[i]) => inflight'[j] = inflight[j]]_vars

\* one request has timed out while the other, started before, is still
\* waiting for its body with its own timer armed
C23_Witness ==
    /\ inflight[1].phase = "settled"
    /\ inflight[1].out = Throw(TimeoutError)
    /\ inflight[1].timer = "fired"
    /\ inflight[2].phase = "body"
    /\ inflight[2].timer = "armed"

----------------------------------------------------------------------------
(* Claims about the requests of paginateAll, checked under SpecRequest *)

\* C24: in paginateAll the first request is the one built from the caller's
\* path and query parameters, and every later request goes to the next link
\* of the page just received, character for character, with no query string
\* added, also when that link is on another host.
C24_FollowUpsUseNextVerbatim ==
    /\ [](call.pc # "idle" /\ call.tool = "paginateAll" /\ Len(sent) >= 1
            => sent[1].url = BuildUrl(Client(config), call.args.path, call.args.params))
    /\ [][(pag.active /\ pag'.active /\ sent' # sent)
            => /\ Len(sent') = Len(sent) + 1
               /\ req.phase = "body"
               /\ req.response.body.next = Def(sent'[Len(sent')].url)]_vars

\* a call with {role: "owner"} whose first page linked to another host: the
\* second request went to that link as it was
C24_Witness ==
    /\ call.pc # "idle"
    /\ call.tool = "paginateAll"
    /\ call.args.params # Undefined
    /\ Len(sent) = 2
    /\ Contains(sent[1].url, <<"?", "r", "o", "l", "e", "=", "o", "w", "n", "e", "r">>)
    /\ sent[2].url = OtherHostUrl

\* C25: pagination is sequential: while paginateAll runs, the fetches it has
\* issued are the pages it has received plus the one request in flight, and
\* the request for the next page is issued in the step in which the body of
\* the page before it has been read.
C25_PaginationIsSequential ==
    /\ [](pag.active => /\ req.phase \in {"fetch", "body"}
                        /\ Len(sent) = Len(fetched) + 1)
    /\ [](call.pc # "idle" /\ call.tool = "paginateAll" => Len(sent) <= Len(fetched) + 1)
    /\ [][(pag.active /\ sent' # sent)
            => /\ req.phase = "body"
               /\ req.response # Undefined
               /\ IsEnvelope(req.response.body)
               /\ Len(fetched') = Len(fetched) + 1
               /\ fetched'[Len(fetched')] = req.response.body.values
               /\ Len(sent') = Len(sent) + 1]_vars

\* the third request is in flight and two pages have been received
C25_Witness ==
    /\ pag.active
    /\ req.phase = "fetch"
    /\ Len(sent) = 3
    /\ Len(fetched) = 2

----------------------------------------------------------------------------
(* Claims about retries, checked under SpecClient *)

\* the verb wrappers
Verbs == {"get", "getRaw", "post", "put", "del", "postFormData"}

\* C26: nothing is retried inside the client: an invocation of a verb wrapper
\* issues at most one fetch, and when a request fails (timeout, network
\* failure, non-2xx response) the failure is the outcome of the operation in
\* that same step, with no further fetch issued.
C26_NothingIsRetried ==
    /\ [](call.pc # "idle" /\ call.tool \in Verbs => Len(sent) <= 1)
    /\ [](call.pc = "done" /\ call.tool \in Verbs /\ req.phase = "settled"
            => call.out = req.out /\ Len(sent) = 1)
    /\ [][(req.phase \in {"fetch", "body"} /\ req'.phase = "settled" /\ req'.out.threw)
            => /\ call'.pc = "done"
               /\ call'.out = req'.out
               /\ sent' = sent]_vars
    /\ [][(req.phase = "body" /\ ~Ok(req.response) /\ req' # req)
            => req'.phase = "settled" /\ req'.out.threw]_vars

\* a get that timed out: one fetch was issued and the caller has the 408
C26_Witness ==
    /\ call.pc = "done"
    /\ call.tool = "get"
    /\ call.out = Throw(TimeoutError)
    /\ req.timer = "fired"
    /\ Len(sent) = 1

----------------------------------------------------------------------------
(* A further claim about the Access Gateway, checked under SpecGateway *)

HasSlash(s) == \E i \in 1..Len(s) : s[i] = "/"

\* C27: with allowedRepos present, assertRepoAllowed returns normally for
\* (workspace, repoSlug) only if the list holds the composite entry
\* lower(workspace) + "/" + lower(repoSlug) or an entry without "/" equal to
\* lower(repoSlug); a composite entry "w/r" authorizes nothing under another
\* workspace, also for a repoSlug that contains "/".
C27_Original ==
    (gw.fn = "assertRepoAllowed" /\ config.allowedRepos.def /\ ~gw.out.threw) =>
        \E i \in 1..Len(config.allowedRepos.val) :
            LET entry == config.allowedRepos.val[i]
            IN  \/ entry = ToLowerCase(gw.workspace) \o <<"/">> \o ToLowerCase(gw.repoSlug)
                \/ ~HasSlash(entry) /\ entry = ToLowerCase(gw.repoSlug)

\* the list holds only "ws1/repo", and assertRepoAllowed(config, "ws2",
\* "ws1/repo") returned normally
C27_Witness ==
    /\ gw.fn = "assertRepoAllowed"
    /\ config.allowedRepos = Def(<<ws1_repo>>)
    /\ gw.workspace = ws2
    /\ gw.repoSlug = ws1_repo
    /\ ~gw.out.threw

----------------------------------------------------------------------------
(* Claims about the settling of a request, checked under SpecClient *)

\* C28: an API Error with status 0 is raised only when the HTTP call failed
\* before any response was received: once a response has been received, the
\* request returns a value, raises an API Error with that response's status,
\* or raises the status-408 timeout error.
C28_Original ==
    (req.phase = "settled" /\ req.response # Undefined) =>
        \/ ~req.out.threw
        \/ req.out.error.statusCode = req.response.status
        \/ req.out.error.statusCode = 408

\* a 200 response announced as JSON whose body is no JSON: response.json()
\* rejected, and the get failed with status 0 and a "Network error" message
C28_Witness ==
    /\ call.pc = "done"
    /\ call.tool = "get"
    /\ req.phase = "settled"
    /\ req.response # Undefined
    /\ req.response.status = 200
    /\ req.timer = "cleared"
    /\ call.out = Throw(BitbucketApiError(0,
                        <<"Network error: ", "Unexpected token '", "<", "', \"",
                          "<", "h", "t", "m", "l", ">", "\" is not valid JSON">>))

\* C29: when a request settles, with a value, an API Error of the response's
\* status, the 408 of the timeout or the status-0 error, its timer is no
\* longer pending: it was cleared, or it had fired and caused the 408; the
\* timer is armed only while the request is pending, and nothing happens to
\* a settled request.
C29_TimerNotPendingAfterSettle ==
    /\ [](req.phase = "settled"
            => /\ req.timer \in {"cleared", "fired"}
               /\ req.timer = "fired" <=> req.out = Throw(TimeoutError))
    /\ [](req.phase \in {"fetch", "body"} => req.timer = "armed")
    /\ [][(req.phase = "settled" /\ req'.phase = "settled") => req' = req]_vars

\* a get that returned a value: its timer was cleared before it could fire
C29_Witness ==
    /\ call.pc = "done"
    /\ call.tool = "get"
    /\ req.phase = "settled"
    /\ ~req.out.threw
    /\ req.timer = "cleared"

----------------------------------------------------------------------------
(* A claim about termination, checked under SpecClientFair *)

\* C30: every client operation eventually settles when the timer eventually
\* fires: an operation that waits for a request comes to its end, and the
\* n-th request of an operation does not stay pending, whether the server
\* never answers or stalls during the body; so every paginateAll with its
\* finite maxPages returns or fails.
C30_EveryOperationSettles ==
    /\ (call.pc = "await") ~> (call.pc = "done")
    /\ \A n \in 1..DefaultMaxPages :
          (call.pc = "await" /\ Len(sent) = n /\ req.phase \in {"fetch", "body"})
              ~> (call.pc = "done" \/ Len(sent) > n)

\* a paginateAll whose second page stalled while its body was read: the
\* timer fired and the invocation failed with the 408
C30_Witness ==
    /\ call.pc = "done"
    /\ call.tool = "paginateAll"
    /\ Len(sent) = 2
    /\ req.response # Undefined
    /\ req.timer = "fired"
    /\ call.out = Throw(TimeoutError)

====
